---- MODULE Spec2Model ----
(***************************************************************************)
(* Verification model of dltui: the DLT wire codec, the message index      *)
(* builder, the message accessor, the parallel filter / search engines and *)
(* the session (App).                                                      *)
(*                                                                         *)
(* Bytes are integers 0..255, byte strings are sequences of bytes and      *)
(* text is a sequence of character codes.  File offsets are 0-based as in  *)
(* the source; At(m, p) reads the byte at offset p.  Option<T> is a        *)
(* sequence of length 0 (None) or 1 (Some).                                *)
(***************************************************************************)
EXTENDS Integers, Sequences, FiniteSets, TLC

VARIABLES
    mmap,       \* build_index: the mapped bytes being scanned
    pos,        \* build_index: local `pos`
    index,      \* build_index: local `index`
    pc,         \* build_index: "scan" while in the loop, "done" after it
    gm,         \* last DltFile::get_message call: [idx, res] (None before)
    par_file,   \* parallel evaluation: the DltFile the job runs over
    par_job,    \* parallel evaluation: the FilterEngine or SearchEngine
    par_slot,   \* parallel evaluation: per-position outcome of the closure
    par_pc,     \* parallel evaluation: "start", "run" or "done"
    par_out,    \* parallel evaluation: what apply / search returned
    app,        \* session: the App struct
    crashed,    \* session: the process died of a panic
    last_op,    \* session: the last App operation and its outcome
    ts,         \* timestamp conversion: the build, the header fields, the result
    chan,       \* event loop: the events sent to run_app and not yet received
    ev_pc,      \* event loop: the polling thread, "poll", "tick" or "exited"
    main_pc     \* event loop: where run_app / main is

idxVars == <<mmap, pos, index, pc, gm>>
parVars == <<par_file, par_job, par_slot, par_pc, par_out>>
appVars == <<app, crashed, last_op>>
timeVars == <<ts>>
loopVars == <<chan, ev_pc, main_pc>>
vars == <<idxVars, parVars, appVars, timeVars, loopVars>>

----------------------------------------------------------------------------
(* Bounds of the model                                                     *)

MaxSegs == 3        \* segments concatenated into one scanned file
MaxParSegs == 2     \* segments concatenated into one filtered / searched file
MaxFiles == 2       \* files a session opens
MaxInput == 1       \* characters typed into the command input
MaxFlags == 2       \* leading "(?i)" groups a stored search pattern may reach
MaxChan == 2        \* events waiting in the channel of the event handler

----------------------------------------------------------------------------
(* Byte and option helpers                                                 *)

None == <<>>
Some(x) == <<x>>
IsSome(o) == Len(o) = 1
Unwrap(o) == o[1]

\* `let x = v;` followed by the rest of the function body F(x): v is
\* computed once, before the body
With(v, F(_)) == CHOOSE y \in {F(x) : x \in {v}} : TRUE

At(m, p) == m[p + 1]
Slice(m, from, to) == SubSeq(m, from + 1, to)      \* &m[from..to]

\* (1..=n).collect(), the range shifted by one
UpTo_from_one(n) == [k \in 1..n |-> k]

\* (0..n).collect()
RECURSIVE UpTo(_)
UpTo(n) == IF n <= 0 THEN <<>> ELSE Append(UpTo(n - 1), n - 1)

StrictlyAscending(s) == \A k \in 1..(Len(s) - 1) : s[k] < s[k + 1]

----------------------------------------------------------------------------
(* Wire codec: dlt_message.rs                                              *)

STORAGE_HEADER_SIZE == 16
STANDARD_HEADER_SIZE == 4
EXTENDED_HEADER_SIZE == 10

\* the storage pattern test of build_index (and DltStorageHeader::is_valid)
IsMagic_Prefix3(m, p) ==
    At(m, p) = 68 /\ At(m, p + 1) = 76 /\ At(m, p + 2) = 84

IsMagic(m, p) ==
    At(m, p) = 68 /\ At(m, p + 1) = 76 /\ At(m, p + 2) = 84 /\ At(m, p + 3) = 1

\* read_u32::<BigEndian>
U32BE(m, p) ==
    ((At(m, p) * 256 + At(m, p + 1)) * 256 + At(m, p + 2)) * 256 + At(m, p + 3)

\* u16::from_le_bytes / read_u16::<LittleEndian>
U16LE(m, p) == At(m, p) + 256 * At(m, p + 1)

\* String::from_utf8_lossy(..).trim_end_matches('\0'): bytes above 127 in
\* the four-byte id fields decode to U+FFFD, trailing NULs are removed
Lossy(b) == IF b > 127 THEN 65533 ELSE b
RECURSIVE TrimEndNul(_)
TrimEndNul(s) ==
    IF Len(s) > 0 /\ s[Len(s)] = 0 THEN TrimEndNul(SubSeq(s, 1, Len(s) - 1))
    ELSE s
IdStr(bytes) == TrimEndNul([k \in 1..Len(bytes) |-> Lossy(bytes[k])])

\* impl From<u8> for LogLevel
LogLevel_from(v) ==
    CASE v = 1 -> <<"Fatal">>
      [] v = 2 -> <<"Error">>
      [] v = 3 -> <<"Warning">>
      [] v = 4 -> <<"Info">>
      [] v = 5 -> <<"Debug">>
      [] v = 6 -> <<"Verbose">>
      [] OTHER -> <<"Unknown", v>>

\* impl From<u8> for MessageType
MessageType_from(v) ==
    CASE v = 0 -> <<"Log">>
      [] v = 1 -> <<"TraceVariable">>
      [] v = 2 -> <<"NetworkTrace">>
      [] v = 3 -> <<"Control">>
      [] OTHER -> <<"Unknown", v>>

\* The three header parsers read from a Cursor at position c; every read is
\* a read_exact that fails with UnexpectedEof when the slice is too short.
DltStorageHeader_parse(data, c) ==
    IF c + STORAGE_HEADER_SIZE > Len(data) THEN [ok |-> FALSE]
    ELSE [ok |-> TRUE,
          pos |-> c + STORAGE_HEADER_SIZE,
          v |-> [pattern |-> Slice(data, c, c + 4),
                 timestamp_seconds |-> U32BE(data, c + 4),
                 timestamp_microseconds |-> U32BE(data, c + 8),
                 ecu_id |-> Slice(data, c + 12, c + 16)]]

DltStandardHeader_parse(data, c) ==
    IF c + STANDARD_HEADER_SIZE > Len(data) THEN [ok |-> FALSE]
    ELSE LET header_type == At(data, c) IN
         [ok |-> TRUE,
          pos |-> c + STANDARD_HEADER_SIZE,
          v |-> [use_extended_header |-> (header_type % 2) # 0,
                 message_counter |-> At(data, c + 1),
                 length |-> U16LE(data, c + 2),
                 message_type |-> MessageType_from((header_type \div 2) % 8),
                 version |-> (header_type \div 32) % 8]]

DltExtendedHeader_parse(data, c) ==
    IF c + EXTENDED_HEADER_SIZE > Len(data) THEN [ok |-> FALSE]
    ELSE LET message_info == At(data, c) IN
         [ok |-> TRUE,
          pos |-> c + EXTENDED_HEADER_SIZE,
          v |-> [message_info |-> message_info,
                 argument_count |-> At(data, c + 1),
                 app_id |-> Slice(data, c + 2, c + 6),
                 context_id |-> Slice(data, c + 6, c + 10),
                 log_level |-> LogLevel_from((message_info \div 16) % 8)]]

\* DltMessage::parse_payload_text
IsTextByte(b) == (b >= 32 /\ b < 127) \/ b = 10 \/ b = 13 \/ b = 9
parse_payload_text(payload) ==
    IF \A k \in 1..Len(payload) : IsTextByte(payload[k])
    THEN Some(payload) ELSE None

\* DltMessage::parse taking everything after the headers for the payload
DltMessage_parse_rest_of_slice(data) ==
    With(DltStorageHeader_parse(data, 0), LAMBDA sh :
    IF ~sh.ok THEN [kind |-> "Err"] ELSE
    With(DltStandardHeader_parse(data, sh.pos), LAMBDA st :
    IF ~st.ok THEN [kind |-> "Err"] ELSE
    With(IF st.v.use_extended_header
         THEN DltExtendedHeader_parse(data, st.pos)
         ELSE [ok |-> TRUE, pos |-> st.pos], LAMBDA eh :
    IF ~eh.ok THEN [kind |-> "Err"] ELSE
    With(Slice(data, eh.pos, Len(data)), LAMBDA payload :
    [kind |-> "Ok",
     msg |-> [storage_header |-> sh.v,
              standard_header |-> st.v,
              extended_header |->
                  IF st.v.use_extended_header THEN Some(eh.v) ELSE None,
              payload |-> payload,
              payload_text |-> parse_payload_text(payload)]]))))

\* DltMessage::parse.  kind is "Ok" (with msg), "Err" (an io::Error from a
\* short read) or "Panic".  `length as usize - headers_size` with
\* length < headers_size panics on overflow in a build with overflow checks
\* and wraps to a value above isize::MAX otherwise, where vec![0u8; n]
\* panics with a capacity overflow: the call never returns in either build.
DltMessage_parse(data) ==
    With(DltStorageHeader_parse(data, 0), LAMBDA sh :
    IF ~sh.ok THEN [kind |-> "Err"] ELSE
    With(DltStandardHeader_parse(data, sh.pos), LAMBDA st :
    IF ~st.ok THEN [kind |-> "Err"] ELSE
    With(IF st.v.use_extended_header
         THEN DltExtendedHeader_parse(data, st.pos)
         ELSE [ok |-> TRUE, pos |-> st.pos], LAMBDA eh :
    IF ~eh.ok THEN [kind |-> "Err"] ELSE
    With(eh.pos, LAMBDA headers_size :
    IF st.v.length < headers_size THEN [kind |-> "Panic"] ELSE
    With(st.v.length - headers_size, LAMBDA payload_size :
    IF headers_size + payload_size > Len(data) THEN [kind |-> "Err"] ELSE
    With(Slice(data, headers_size, headers_size + payload_size), LAMBDA payload :
    [kind |-> "Ok",
     msg |-> [storage_header |-> sh.v,
              standard_header |-> st.v,
              extended_header |->
                  IF st.v.use_extended_header THEN Some(eh.v) ELSE None,
              payload |-> payload,
              payload_text |-> parse_payload_text(payload)]]))))))

\* DltMessage accessors
ecu_id(msg) == IdStr(msg.storage_header.ecu_id)
app_id(msg) ==
    IF IsSome(msg.extended_header)
    THEN Some(IdStr(Unwrap(msg.extended_header).app_id)) ELSE None
context_id(msg) ==
    IF IsSome(msg.extended_header)
    THEN Some(IdStr(Unwrap(msg.extended_header).context_id)) ELSE None
log_level(msg) ==
    IF IsSome(msg.extended_header)
    THEN Some(Unwrap(msg.extended_header).log_level) ELSE None
message_type(msg) == msg.standard_header.message_type

----------------------------------------------------------------------------
(* Message index and accessor: dlt_file.rs                                 *)

\* the iteration of build_index skipping by any non-zero length field,
\* whether or not the record fits in the remaining bytes
build_index_iter_skip_unchecked(m, st) ==
    IF ~(st.pos < Len(m)) THEN [st EXCEPT !.done = TRUE]
    ELSE IF st.pos + 16 > Len(m) THEN [st EXCEPT !.done = TRUE]
    ELSE IF IsMagic(m, st.pos) THEN
        LET pushed == Append(st.index, st.pos) IN
        IF st.pos + 20 <= Len(m) /\ U16LE(m, st.pos + 18) > 0
        THEN [pos |-> st.pos + U16LE(m, st.pos + 18),
              index |-> pushed, done |-> FALSE]
        ELSE [pos |-> st.pos + 1, index |-> pushed, done |-> FALSE]
    ELSE [st EXCEPT !.pos = @ + 1]

\* One iteration of the `while pos < mmap.len()` loop of build_index, on the
\* loop state st = [pos, index, done].
build_index_iter(m, st) ==
    IF ~(st.pos < Len(m)) THEN [st EXCEPT !.done = TRUE]
    ELSE IF st.pos + 16 > Len(m) THEN [st EXCEPT !.done = TRUE]
    ELSE IF IsMagic(m, st.pos) THEN
        LET pushed == Append(st.index, st.pos) IN
        IF st.pos + 20 <= Len(m)
           /\ U16LE(m, st.pos + 18) > 0
           /\ st.pos + U16LE(m, st.pos + 18) <= Len(m)
        THEN [pos |-> st.pos + U16LE(m, st.pos + 18),
              index |-> pushed, done |-> FALSE]
        ELSE [pos |-> st.pos + 1, index |-> pushed, done |-> FALSE]
    ELSE [st EXCEPT !.pos = @ + 1]

RECURSIVE build_index_from(_, _)
build_index_from(m, st) ==
    IF st.done THEN st.index
    ELSE With(build_index_iter(m, st), LAMBDA next : build_index_from(m, next))

build_index(m) ==
    build_index_from(m, [pos |-> 0, index |-> <<>>, done |-> FALSE])

\* DltFile::get_message on a file f = [mmap, index]; message_count is
\* index.len().  kind: "Ok", "NotFound", "Format" (parse error) or "Panic".
message_count(f) == Len(f.index)

get_message(f, idx) ==
    IF idx >= message_count(f) THEN [kind |-> "NotFound"]
    ELSE LET p == f.index[idx + 1]
             next_pos == IF idx + 1 < message_count(f)
                         THEN f.index[idx + 2] ELSE Len(f.mmap)
         IN  With(DltMessage_parse(Slice(f.mmap, p, next_pos)), LAMBDA r :
                  IF r.kind = "Err" THEN [kind |-> "Format"] ELSE r)

----------------------------------------------------------------------------
(* Input files: DLT records as the codec lays them out, and damaged ones   *)

BE32(n) == <<(n \div 16777216) % 256, (n \div 65536) % 256,
             (n \div 256) % 256, n % 256>>
Pad4(s) == [k \in 1..4 |-> IF k <= Len(s) THEN s[k] ELSE 0]
StorageBytes(ts_s, ts_us, ecu) ==
    <<68, 76, 84, 1>> \o BE32(ts_s) \o BE32(ts_us) \o Pad4(ecu)

\* a well-formed record with extended header (header type: extended bit,
\* message type Log, version 1), as M(...) of the concrete scenarios
M(ts_s, ts_us, ecu, apid, ctid, level, text) ==
    LET len == 30 + Len(text) IN
    StorageBytes(ts_s, ts_us, ecu)
      \o <<33, 0, len % 256, len \div 256>>
      \o <<level * 16, 1>> \o Pad4(apid) \o Pad4(ctid) \o text

\* a well-formed record without extended header
MStd(ts_s, ts_us, ecu, payload) ==
    LET len == 20 + Len(payload) IN
    StorageBytes(ts_s, ts_us, ecu)
      \o <<32, 0, len % 256, len \div 256>> \o payload

\* the record with its length field overwritten
WithLength(rec, len) ==
    [k \in 1..Len(rec) |->
        IF k = 19 THEN len % 256 ELSE IF k = 20 THEN len \div 256 ELSE rec[k]]

RecA == M(100, 0, <<65>>, <<97>>, <<97>>, 4, <<97>>)       \* text "a"
RecB == MStd(101, 500, <<97>>, <<65>>)                     \* text "A"
RecBin == M(102, 0, <<65>>, <<97>>, <<65>>, 2, <<0>>)      \* binary payload
RecZero == WithLength(RecB, 0)
RecLong == WithLength(RecA, 40)
RecShort == WithLength(RecB, 5)
HdrOnly == StorageBytes(103, 0, <<65>>)
Junk == <<255>>
NearMagic == <<68, 76, 84, 2>>

Segments == {RecA, RecB, RecBin, RecZero, RecLong, RecShort, HdrOnly, Junk,
             NearMagic}

RECURSIVE FilesOf(_)
FilesOf(n) ==
    IF n = 0 THEN {<<>>}
    ELSE LET prev == FilesOf(n - 1) IN
         prev \cup {f \o s : f \in prev, s \in Segments}

Files == FilesOf(MaxSegs)

\* two well-formed records, the second's length field overwritten with 0
F3 == RecA \o RecZero

----------------------------------------------------------------------------
(* The files a session can be asked to open: path -> content, None when    *)
(* there is no such file                                                   *)

Disk ==
    << Some(Junk \o RecBin \o Junk \o RecA \o RecB),
       Some(Junk),
       Some(RecA \o RecLong),
       Some(F3),
       None >>

Paths == 1..Len(Disk)

\* DltFile::new after build_index: the mapping and its index
DltFile_of(m) == [mmap |-> m, index |-> build_index(m)]

\* A mapping never changes, so get_message(f, i) of an opened file depends
\* on its bytes alone: the results for every file the model opens, computed
\* once.  messages(f)[i + 1] is f.get_message(i) for i < message_count.
OpenedContents ==
    FilesOf(MaxParSegs) \cup {Unwrap(Disk[p]) : p \in {q \in Paths : Disk[q] # None}}
MessageTable ==
    [m \in OpenedContents |->
        [k \in 1..Len(build_index(m)) |-> get_message(DltFile_of(m), k - 1)]]
messages(f) == MessageTable[f.mmap]

----------------------------------------------------------------------------
(* Regular expressions.  Pattern strings are sequences of character codes. *)
(* The patterns of the model are literals, optionally preceded by any      *)
(* number of inline "(?i)" groups; a '(' in the literal part opens a group *)
(* that is never closed, which the regex crate rejects.                    *)

CI_PREFIX == <<40, 63, 105, 41>>                   \* "(?i)"

RECURSIVE LeadingFlags(_)
LeadingFlags(s) ==
    IF Len(s) >= 4 /\ SubSeq(s, 1, 4) = CI_PREFIX
    THEN 1 + LeadingFlags(SubSeq(s, 5, Len(s))) ELSE 0
Literal(s) == SubSeq(s, 4 * LeadingFlags(s) + 1, Len(s))

\* Regex::new(s): Ok(regex) or Err; the regex keeps its source (as_str)
Regex_new(s) ==
    IF \E k \in 1..Len(Literal(s)) : Literal(s)[k] \in {40, 41}
    THEN [ok |-> FALSE] ELSE [ok |-> TRUE, re |-> s]

FoldCase(c) == IF c >= 65 /\ c <= 90 THEN c + 32 ELSE c
Fold(s) == [k \in 1..Len(s) |-> FoldCase(s[k])]
Contains(text, lit) ==
    \E k \in 0..(Len(text) - Len(lit)) : SubSeq(text, k + 1, k + Len(lit)) = lit

\* Regex::is_match(text)
is_match(re, text) ==
    IF LeadingFlags(re) > 0 THEN Contains(Fold(text), Fold(Literal(re)))
    ELSE Contains(text, Literal(re))

\* format!("(?i){}", pattern)
WithCiPrefix(pattern) == CI_PREFIX \o pattern

starts_with_ci(s) == Len(s) >= 4 /\ SubSeq(s, 1, 4) = CI_PREFIX

----------------------------------------------------------------------------
(* Filter criteria and filter engine: criteria.rs, filter/engine.rs        *)

\* What the result of DltStorageHeader::timestamp depends on besides the
\* header: whether the build checks integer overflow (the dev profile does,
\* the release profile does not), and whether its chrono accepts a
\* nanosecond value of 10^9..2*10^9-1 (a leap second) on every second or
\* only on second 59 of a minute.
Builds == [overflow_checks : BOOLEAN, leap_second_strict : BOOLEAN]

\* a * b in u32 for a below 2^31 and b below 2^15: the product modulo 2^32
\* as two 16-bit halves, and whether it overflowed
MulU32(a, b) ==
    With((a % 65536) * b, LAMBDA lo :
    With((a \div 65536) * b + lo \div 65536, LAMBDA hi :
    [overflow |-> hi >= 65536, hi |-> hi % 65536, lo |-> lo % 65536]))

\* Utc.timestamp_opt(secs, nsecs).single(), nsecs given in halves
timestamp_opt(build, secs, n) ==
    IF n.hi >= 32768 THEN None                         \* nsecs >= 2^31
    ELSE With(n.hi * 65536 + n.lo, LAMBDA nsecs :
         IF nsecs >= 2000000000 THEN None
         ELSE IF nsecs >= 1000000000
                 /\ build.leap_second_strict /\ secs % 60 # 59
         THEN None
         ELSE Some(<<secs, nsecs>>))

\* DltStorageHeader::timestamp in a given build, as <<seconds, nanoseconds>>
\* (the epoch is <<0, 0>>): kind "Ok" with the instant, or "Panic" when
\* `timestamp_microseconds * 1000` overflows under overflow checks
timestamp_built(build, secs, micros) ==
    With(MulU32(micros, 1000), LAMBDA n :
    IF n.overflow /\ build.overflow_checks THEN [kind |-> "Panic"]
    ELSE With(timestamp_opt(build, secs, n), LAMBDA dt :
         [kind |-> "Ok", v |-> IF IsSome(dt) THEN Unwrap(dt) ELSE <<0, 0>>]))

\* DltStorageHeader::timestamp where every build agrees, which they do for
\* microsecond values below 1_000_000
DltStorageHeader_timestamp(sh) ==
    LET outcomes == {timestamp_built(b, sh.timestamp_seconds,
                                     sh.timestamp_microseconds) : b \in Builds}
    IN  (CHOOSE o \in outcomes : outcomes = {o}).v
timestamp(msg) == DltStorageHeader_timestamp(msg.storage_header)

\* the comparison with <= taken for <
TimeLess_or_equal(a, b) == a[1] < b[1] \/ (a[1] = b[1] /\ a[2] <= b[2])

TimeLess(a, b) == a[1] < b[1] \/ (a[1] = b[1] /\ a[2] < b[2])

\* FilterCriteria::default
FilterCriteria_default ==
    [app_id |-> None, context_id |-> None, log_level |-> None,
     time_range |-> None, message_type |-> None, text_pattern |-> None]

\* FilterCriteria::is_empty
is_empty(c) ==
    /\ c.app_id = None
    /\ c.context_id = None
    /\ c.log_level = None
    /\ c.time_range = None
    /\ c.message_type = None
    /\ c.text_pattern = None

\* FilterCriteria::matches: the first failing check returns false
FilterCriteria_matches(c, msg) ==
    IF IsSome(c.app_id)
       /\ (app_id(msg) = None \/ Unwrap(app_id(msg)) # Unwrap(c.app_id))
    THEN FALSE
    ELSE IF IsSome(c.context_id)
       /\ (context_id(msg) = None
           \/ Unwrap(context_id(msg)) # Unwrap(c.context_id))
    THEN FALSE
    ELSE IF IsSome(c.log_level)
       /\ (log_level(msg) = None
           \/ Unwrap(log_level(msg)) # Unwrap(c.log_level))
    THEN FALSE
    ELSE IF IsSome(c.time_range)
       /\ (\/ TimeLess(timestamp(msg), Unwrap(c.time_range)[1])
           \/ TimeLess(Unwrap(c.time_range)[2], timestamp(msg)))
    THEN FALSE
    ELSE IF IsSome(c.message_type)
       /\ message_type(msg) # Unwrap(c.message_type)
    THEN FALSE
    ELSE IF IsSome(c.text_pattern)
    THEN IF IsSome(msg.payload_text)
         THEN is_match(Unwrap(c.text_pattern), Unwrap(msg.payload_text))
         ELSE FALSE
    ELSE TRUE

----------------------------------------------------------------------------
(* Search engine: search/engine.rs                                         *)

\* SearchEngine::with_case_sensitivity: Ok(engine) or Err
with_case_sensitivity(pattern, case_sensitive) ==
    With(Regex_new(IF case_sensitive THEN pattern ELSE WithCiPrefix(pattern)),
         LAMBDA r :
            IF r.ok
            THEN [ok |-> TRUE,
                  engine |-> [pattern |-> r.re,
                              case_sensitive |-> case_sensitive]]
            ELSE [ok |-> FALSE])

\* SearchEngine::set_pattern_with_case_sensitivity with the pattern stored
\* like the flag, before it is known to compile
set_pattern_stored_before_compile(engine, pattern, case_sensitive) ==
    With(Regex_new(IF case_sensitive THEN pattern ELSE WithCiPrefix(pattern)),
         LAMBDA r :
            IF r.ok
            THEN [ok |-> TRUE,
                  engine |-> [pattern |-> r.re,
                              case_sensitive |-> case_sensitive]]
            ELSE [ok |-> FALSE,
                  engine |-> [pattern |-> pattern,
                              case_sensitive |-> case_sensitive]])

\* SearchEngine::set_pattern_with_case_sensitivity: the flag is stored
\* before the pattern is compiled; on a compile error the old pattern stays
set_pattern_with_case_sensitivity(engine, pattern, case_sensitive) ==
    With(Regex_new(IF case_sensitive THEN pattern ELSE WithCiPrefix(pattern)),
         LAMBDA r :
            IF r.ok
            THEN [ok |-> TRUE,
                  engine |-> [pattern |-> r.re,
                              case_sensitive |-> case_sensitive]]
            ELSE [ok |-> FALSE,
                  engine |-> [engine EXCEPT !.case_sensitive = case_sensitive]])

\* SearchEngine::set_case_sensitive
set_case_sensitive(engine, case_sensitive) ==
    IF engine.case_sensitive = case_sensitive
    THEN [ok |-> TRUE, engine |-> engine]
    ELSE LET pattern_str == engine.pattern
             pattern ==
                 IF ~case_sensitive /\ starts_with_ci(pattern_str)
                 THEN pattern_str
                 ELSE IF case_sensitive /\ ~starts_with_ci(pattern_str)
                 THEN WithCiPrefix(pattern_str)
                 ELSE pattern_str
         IN  set_pattern_with_case_sensitivity(engine, pattern, case_sensitive)

\* SearchEngine::matches: a message with payload text is decided by the
\* text alone; the id fields are consulted only when there is no text
SearchEngine_matches(engine, msg) ==
    IF IsSome(msg.payload_text)
    THEN is_match(engine.pattern, Unwrap(msg.payload_text))
    ELSE IF IsSome(app_id(msg)) /\ is_match(engine.pattern, Unwrap(app_id(msg)))
    THEN TRUE
    ELSE IF IsSome(context_id(msg))
            /\ is_match(engine.pattern, Unwrap(context_id(msg)))
    THEN TRUE
    ELSE is_match(engine.pattern, ecu_id(msg))

----------------------------------------------------------------------------
(* Parallel evaluation: FilterEngine::apply and SearchEngine::search       *)
(* (0..message_count).into_par_iter().filter_map(..).collect()             *)

\* the filter_map closure on r = file.get_message(idx): "some" keeps idx,
\* "none" drops it, "panic" is a panic inside get_message
Closure(job, r) ==
    IF r.kind = "Panic" THEN "panic"
    ELSE IF r.kind # "Ok" THEN "none"
    ELSE IF job.kind = "filter"
    THEN (IF FilterCriteria_matches(job.criteria, r.msg) THEN "some" ELSE "none")
    ELSE (IF SearchEngine_matches(job.engine, r.msg) THEN "some" ELSE "none")

\* collect(): the kept positions in the order of the range, whatever the
\* order the closures ran in
RECURSIVE Collect(_, _)
Collect(slot, n) ==
    IF n = 0 THEN <<>>
    ELSE IF slot[n] = "some" THEN Append(Collect(slot, n - 1), n - 1)
    ELSE Collect(slot, n - 1)

\* the call as a whole: a panic in any closure propagates to the caller
ParResult(job, f) ==
    With([k \in 1..message_count(f) |-> Closure(job, messages(f)[k])],
         LAMBDA slot :
            IF \E k \in DOMAIN slot : slot[k] = "panic" THEN [kind |-> "Panic"]
            ELSE [kind |-> "Ok", v |-> Collect(slot, Len(slot))])

\* FilterEngine::apply
FilterEngine_apply(criteria, f) ==
    IF is_empty(criteria) THEN [kind |-> "Ok", v |-> UpTo(message_count(f))]
    ELSE ParResult([kind |-> "filter", criteria |-> criteria], f)

\* SearchEngine::search
SearchEngine_search(engine, f) ==
    ParResult([kind |-> "search", engine |-> engine], f)

----------------------------------------------------------------------------
(* Secondary index: index.rs                                               *)

\* map.insert(key, vec![idx]): the list of the key replaced, not extended
MapPush_overwrite(map, key, idx) ==
    IF key \in DOMAIN map THEN [map EXCEPT ![key] = <<idx>>]
    ELSE map @@ (key :> <<idx>>)

\* map.entry(key).or_default().push(idx)
MapPush(map, key, idx) ==
    IF key \in DOMAIN map THEN [map EXCEPT ![key] = Append(@, idx)]
    ELSE map @@ (key :> <<idx>>)

Index_empty ==
    [app_id_index |-> <<>>, context_id_index |-> <<>>,
     log_level_index |-> <<>>, ecu_id_index |-> <<>>]

\* the body of the for loop of Index::build for one parsed message
Index_add(ix, msg, idx) ==
    With([ix EXCEPT !.ecu_id_index = MapPush(@, ecu_id(msg), idx)], LAMBDA e :
    With(IF IsSome(app_id(msg))
         THEN [e EXCEPT !.app_id_index = MapPush(@, Unwrap(app_id(msg)), idx)]
         ELSE e, LAMBDA a :
    With(IF IsSome(context_id(msg))
         THEN [a EXCEPT !.context_id_index =
                            MapPush(@, Unwrap(context_id(msg)), idx)]
         ELSE a, LAMBDA c :
    IF IsSome(log_level(msg))
    THEN [c EXCEPT !.log_level_index = MapPush(@, Unwrap(log_level(msg)), idx)]
    ELSE c)))

\* Index::build from position idx on: `get_message(idx)?` returns the first
\* error; a panic in the parser is not caught
RECURSIVE Index_build(_, _, _)
Index_build(f, idx, ix) ==
    IF idx >= message_count(f) THEN [kind |-> "Ok", index |-> ix]
    ELSE With(get_message(f, idx), LAMBDA r :
            IF r.kind = "Ok"
            THEN With(Index_add(ix, r.msg, idx),
                      LAMBDA added : Index_build(f, idx + 1, added))
            ELSE [kind |-> r.kind])

\* Index::messages_by_app_id / _context_id / _log_level / _ecu_id:
\* map.get(key).cloned().unwrap_or_default()
messages_by_app_id(ix, key) ==
    IF key \in DOMAIN ix.app_id_index THEN ix.app_id_index[key] ELSE <<>>
messages_by_context_id(ix, key) ==
    IF key \in DOMAIN ix.context_id_index THEN ix.context_id_index[key]
    ELSE <<>>
messages_by_log_level(ix, key) ==
    IF key \in DOMAIN ix.log_level_index THEN ix.log_level_index[key]
    ELSE <<>>
messages_by_ecu_id(ix, key) ==
    IF key \in DOMAIN ix.ecu_id_index THEN ix.ecu_id_index[key] ELSE <<>>

\* DltFile::open
DltFile_open_at(path) ==
    IF Disk[path] = None THEN [kind |-> "Io"]
    ELSE [kind |-> "Ok",
          file |-> [path |-> path,
                    mmap |-> Unwrap(Disk[path]),
                    index |-> build_index(Unwrap(Disk[path]))]]
OpenTable == [path \in Paths |-> DltFile_open_at(path)]
DltFile_open(path) == OpenTable[path]

\* Index::new; the result for every file on Disk, computed once
IndexTable ==
    [path \in {q \in Paths : Disk[q] # None} |->
        Index_build(OpenTable[path].file, 0, Index_empty)]
Index_new(f) == IndexTable[f.path]

\* The session keeps of an opened DltFile its path and its index; the
\* mapping is the content of the file at that path.
Held(f) == [path |-> f.path, index |-> f.index]
Mapped(h) == [path |-> h.path, mmap |-> Unwrap(Disk[h.path]), index |-> h.index]

----------------------------------------------------------------------------
(* Session: app/state.rs.  Every operation is a function of the App value; *)
(* a fallible one returns [ok, app] with the App as the call left it.      *)
(* status_message is a tuple of the message kind and its arguments, the    *)
(* empty string being <<>>.                                                *)

\* App::new
App_new ==
    [files |-> <<>>,
     indices |-> <<>>,
     current_file_idx |-> 0,
     filter |-> FilterCriteria_default,
     filter_engine |-> Some([criteria |-> FilterCriteria_default]),
     filtered_messages |-> <<>>,
     selected_message_idx |-> 0,
     view_mode |-> "List",
     input_mode |-> "Normal",
     search_engine |-> None,
     search_pattern |-> None,
     search_results |-> <<>>,
     current_search_idx |-> 0,
     case_sensitive_search |-> TRUE,
     command_input |-> <<>>,
     status_message |-> <<>>,
     should_exit |-> FALSE]

current_file(a) == Mapped(a.files[a.current_file_idx + 1])

\* App::apply_filter without the final reset of the search state
apply_filter_keep_search(a) ==
    IF a.files = <<>> THEN [a EXCEPT !.filtered_messages = <<>>]
    ELSE LET file == current_file(a)
             filtered ==
                 IF IsSome(a.filter_engine)
                 THEN FilterEngine_apply(Unwrap(a.filter_engine).criteria, file).v
                 ELSE UpTo(message_count(file))
         IN  [a EXCEPT !.filtered_messages = filtered,
                       !.selected_message_idx = 0]

\* App::apply_filter.  Index::new has parsed every message of a file the
\* session holds, so no closure of FilterEngine::apply panics here.
apply_filter(a) ==
    IF a.files = <<>> THEN [a EXCEPT !.filtered_messages = <<>>]
    ELSE LET file == current_file(a)
             filtered ==
                 IF IsSome(a.filter_engine)
                 THEN FilterEngine_apply(Unwrap(a.filter_engine).criteria, file).v
                 ELSE UpTo(message_count(file))
         IN  [a EXCEPT !.filtered_messages = filtered,
                       !.selected_message_idx = 0,
                       !.search_results = <<>>,
                       !.current_search_idx = 0]

\* App::load_file selecting the new file whether or not it is the first
load_file_always_select(a, path) ==
    With(DltFile_open(path), LAMBDA o :
    IF o.kind # "Ok" THEN [kind |-> o.kind, app |-> a] ELSE
    With(Index_new(o.file), LAMBDA ix :
    IF ix.kind # "Ok" THEN [kind |-> ix.kind, app |-> a] ELSE
    With([a EXCEPT !.files = Append(@, Held(o.file)),
                   !.indices = Append(@, ix.index)], LAMBDA pushed :
    [kind |-> "Ok",
     app |-> apply_filter([pushed EXCEPT !.current_file_idx = 0])])))

\* App::load_file: kind "Ok", an error kind with the App untouched, or
\* "Panic"
load_file(a, path) ==
    With(DltFile_open(path), LAMBDA o :
    IF o.kind # "Ok" THEN [kind |-> o.kind, app |-> a] ELSE
    With(Index_new(o.file), LAMBDA ix :
    IF ix.kind # "Ok" THEN [kind |-> ix.kind, app |-> a] ELSE
    With([a EXCEPT !.files = Append(@, Held(o.file)),
                   !.indices = Append(@, ix.index)], LAMBDA pushed :
    [kind |-> "Ok",
     app |-> IF Len(pushed.files) = 1
             THEN apply_filter([pushed EXCEPT !.current_file_idx = 0])
             ELSE pushed])))

\* the loop of App::search over filtered_messages, entries 1..n
RECURSIVE search_hits(_, _, _, _)
search_hits(engine, file, filtered, n) ==
    IF n = 0 THEN <<>>
    ELSE With(IF filtered[n] >= message_count(file)
              THEN [kind |-> "NotFound"]
              ELSE messages(file)[filtered[n] + 1], LAMBDA r :
         With(search_hits(engine, file, filtered, n - 1), LAMBDA before :
            IF r.kind = "Ok" /\ SearchEngine_matches(engine, r.msg)
            THEN Append(before, n - 1) ELSE before))

\* App::search
search(a, pattern) ==
    With(IF IsSome(a.search_engine)
         THEN set_pattern_with_case_sensitivity(
                  Unwrap(a.search_engine), pattern, a.case_sensitive_search)
         ELSE with_case_sensitivity(pattern, a.case_sensitive_search), LAMBDA e :
    IF ~e.ok
    THEN [ok |-> FALSE,
          app |-> IF IsSome(a.search_engine)
                  THEN [a EXCEPT !.search_engine = Some(e.engine)] ELSE a]
    ELSE
    With([a EXCEPT !.search_engine = Some(e.engine)], LAMBDA a1 :
    With(Regex_new(IF a.case_sensitive_search THEN pattern
                   ELSE WithCiPrefix(pattern)), LAMBDA regex :
    IF ~regex.ok THEN [ok |-> FALSE, app |-> a1] ELSE
    With([a1 EXCEPT !.search_pattern = Some(regex.re),
                    !.search_results = <<>>], LAMBDA a2 :
    IF a2.files = <<>> \/ a2.filtered_messages = <<>>
    THEN [ok |-> TRUE, app |-> a2] ELSE
    With(search_hits(e.engine, current_file(a2), a2.filtered_messages,
                     Len(a2.filtered_messages)), LAMBDA hits :
    With([a2 EXCEPT
            !.search_results = hits,
            !.status_message =
                IF hits = <<>> THEN <<"No matches found for", pattern>>
                ELSE <<"Found matches for", Len(hits), pattern>>,
            !.current_search_idx = 0], LAMBDA a3 :
    [ok |-> TRUE,
     app |-> IF hits # <<>> THEN [a3 EXCEPT !.selected_message_idx = hits[1]]
             ELSE a3]))))))

\* App::next_search_result stopping at the last hit instead of wrapping
next_search_result_no_wrap(a) ==
    IF a.search_results = <<>> THEN a
    ELSE LET i == IF a.current_search_idx + 1 < Len(a.search_results)
                  THEN a.current_search_idx + 1
                  ELSE a.current_search_idx IN
         [a EXCEPT !.current_search_idx = i,
                   !.selected_message_idx = a.search_results[i + 1]]

\* App::next_search_result
next_search_result(a) ==
    IF a.search_results = <<>> THEN a
    ELSE LET i == (a.current_search_idx + 1) % Len(a.search_results) IN
         [a EXCEPT !.current_search_idx = i,
                   !.selected_message_idx = a.search_results[i + 1]]

\* App::prev_search_result moving the search cursor but not the selection
prev_search_result_keep_selection(a) ==
    IF a.search_results = <<>> THEN a
    ELSE LET i == IF a.current_search_idx = 0 THEN Len(a.search_results) - 1
                  ELSE a.current_search_idx - 1 IN
         [a EXCEPT !.current_search_idx = i]

\* App::prev_search_result
prev_search_result(a) ==
    IF a.search_results = <<>> THEN a
    ELSE LET i == IF a.current_search_idx = 0 THEN Len(a.search_results) - 1
                  ELSE a.current_search_idx - 1 IN
         [a EXCEPT !.current_search_idx = i,
                   !.selected_message_idx = a.search_results[i + 1]]

\* App::move_up
move_up(a) ==
    IF a.selected_message_idx > 0
    THEN [a EXCEPT !.selected_message_idx = @ - 1] ELSE a

\* App::move_down with the bound off by one
move_down_past_end(a) ==
    IF a.filtered_messages # <<>>
       /\ a.selected_message_idx < Len(a.filtered_messages)
    THEN [a EXCEPT !.selected_message_idx = @ + 1] ELSE a

\* App::move_down
move_down(a) ==
    IF a.filtered_messages # <<>>
       /\ a.selected_message_idx < Len(a.filtered_messages) - 1
    THEN [a EXCEPT !.selected_message_idx = @ + 1] ELSE a

\* App::move_to_top
move_to_top(a) == [a EXCEPT !.selected_message_idx = 0]

\* App::move_to_bottom with the length taken for the last index
move_to_bottom_past_end(a) ==
    IF a.filtered_messages # <<>>
    THEN [a EXCEPT !.selected_message_idx = Len(a.filtered_messages)]
    ELSE a

\* App::move_to_bottom
move_to_bottom(a) ==
    IF a.filtered_messages # <<>>
    THEN [a EXCEPT !.selected_message_idx = Len(a.filtered_messages) - 1]
    ELSE a

\* App::next_file
next_file(a) ==
    IF Len(a.files) > 1
    THEN apply_filter([a EXCEPT !.current_file_idx = (@ + 1) % Len(a.files)])
    ELSE a

\* App::prev_file moving to the previous file without applying the filter
prev_file_no_refilter(a) ==
    IF Len(a.files) > 1
    THEN [a EXCEPT !.current_file_idx =
                       IF @ = 0 THEN Len(a.files) - 1 ELSE @ - 1]
    ELSE a

\* App::prev_file
prev_file(a) ==
    IF Len(a.files) > 1
    THEN apply_filter([a EXCEPT !.current_file_idx =
                          IF @ = 0 THEN Len(a.files) - 1 ELSE @ - 1])
    ELSE a

\* App::enter_search_mode
enter_search_mode(a) ==
    [a EXCEPT !.input_mode = "Search", !.command_input = <<>>,
              !.status_message = <<"Search: ">>]

\* App::exit_search_mode
exit_search_mode(a) ==
    [a EXCEPT !.input_mode = "Normal", !.command_input = <<>>,
              !.status_message = <<>>]

\* App::enter_filter_mode
enter_filter_mode(a) ==
    [a EXCEPT !.input_mode = "Filter", !.command_input = <<>>,
              !.status_message = <<"Filter: ">>]

\* App::exit_filter_mode
exit_filter_mode(a) ==
    [a EXCEPT !.input_mode = "Normal", !.command_input = <<>>,
              !.status_message = <<>>]

\* App::apply_text_filter installing the result computed for the criteria
\* of the request before
apply_text_filter_stale(a, pattern) ==
    With(Regex_new(pattern), LAMBDA regex :
    IF ~regex.ok THEN [ok |-> FALSE, app |-> a] ELSE
    With(apply_filter(a), LAMBDA a1 :
    With([a1 EXCEPT !.filter.text_pattern = Some(regex.re)], LAMBDA a2 :
    With([a2 EXCEPT !.filter_engine = Some([criteria |-> a2.filter])], LAMBDA a3 :
    [ok |-> TRUE,
     app |-> [a3 EXCEPT !.status_message =
                 IF a3.filtered_messages = <<>>
                 THEN <<"No messages match filter", pattern>>
                 ELSE <<"Showing messages matching filter",
                        Len(a3.filtered_messages), pattern>>]]))))

\* App::apply_text_filter
apply_text_filter(a, pattern) ==
    With(Regex_new(pattern), LAMBDA regex :
    IF ~regex.ok THEN [ok |-> FALSE, app |-> a] ELSE
    With([a EXCEPT !.filter.text_pattern = Some(regex.re)], LAMBDA a1 :
    With([a1 EXCEPT !.filter_engine = Some([criteria |-> a1.filter])], LAMBDA a2 :
    With(apply_filter(a2), LAMBDA a3 :
    [ok |-> TRUE,
     app |-> [a3 EXCEPT !.status_message =
                 IF a3.filtered_messages = <<>>
                 THEN <<"No messages match filter", pattern>>
                 ELSE <<"Showing messages matching filter",
                        Len(a3.filtered_messages), pattern>>]]))))

\* App::toggle_case_sensitivity
toggle_case_sensitivity(a) ==
    With([a EXCEPT !.case_sensitive_search = ~@], LAMBDA a1 :
    With(IF IsSome(a1.search_engine)
         THEN set_case_sensitive(Unwrap(a1.search_engine),
                                 a1.case_sensitive_search)
         ELSE [ok |-> TRUE], LAMBDA e :
    With(IF IsSome(a1.search_engine)
         THEN [a1 EXCEPT !.search_engine = Some(e.engine)] ELSE a1, LAMBDA a2 :
    IF ~e.ok THEN [ok |-> FALSE, app |-> a2] ELSE
    With([a2 EXCEPT !.status_message =
             <<"Search mode:", IF a2.case_sensitive_search
                               THEN "case-sensitive"
                               ELSE "case-insensitive">>], LAMBDA a3 :
    IF IsSome(a3.search_pattern)
    THEN search(a3, Unwrap(a3.search_pattern))
    ELSE [ok |-> TRUE, app |-> a3]))))

\* App::exit
exit(a) == [a EXCEPT !.should_exit = TRUE]

\* App::handle_search_input
handle_search_input(a, key) ==
    IF key \in {10, 13} THEN
        With(IF a.command_input # <<>> THEN search(a, a.command_input)
             ELSE [ok |-> TRUE, app |-> a], LAMBDA r :
            exit_search_mode(
                IF ~r.ok
                THEN [r.app EXCEPT !.status_message =
                          <<"Invalid search pattern:", a.command_input>>]
                ELSE r.app))
    ELSE IF key \in {8, 127} THEN
        [a EXCEPT !.command_input =
            IF @ = <<>> THEN @ ELSE SubSeq(@, 1, Len(@) - 1)]
    ELSE IF key = 27 THEN exit_search_mode(a)
    ELSE [a EXCEPT !.command_input = Append(@, key)]

\* App::handle_filter_input
handle_filter_input(a, key) ==
    IF key \in {10, 13} THEN
        With(IF a.command_input # <<>>
             THEN apply_text_filter(a, a.command_input)
             ELSE [ok |-> TRUE, app |-> a], LAMBDA r :
            exit_filter_mode(
                IF ~r.ok
                THEN [r.app EXCEPT !.status_message =
                          <<"Invalid filter pattern:", a.command_input>>]
                ELSE r.app))
    ELSE IF key \in {8, 127} THEN
        [a EXCEPT !.command_input =
            IF @ = <<>> THEN @ ELSE SubSeq(@, 1, Len(@) - 1)]
    ELSE IF key = 27 THEN exit_filter_mode(a)
    ELSE [a EXCEPT !.command_input = Append(@, key)]

\* status_bar::render, the trailing part: the status message is appended
\* to the line when it is not empty
status_line_message(a) ==
    IF a.status_message # <<>> THEN Some(a.status_message) ELSE None

\* App::toggle_view_mode
toggle_view_mode(a) ==
    [a EXCEPT !.view_mode = IF @ = "List" THEN "Detail" ELSE "List"]

\* App::show_help
show_help(a) == [a EXCEPT !.view_mode = "Help"]

\* Keys as crossterm reports them: a code and whether the modifiers are
\* exactly CONTROL.
Key(code) == [code |-> code, ctrl |-> FALSE]
Char(c) == <<"Char", c>>
CtrlC == [code |-> Char(99), ctrl |-> TRUE]

\* run_app, `Event::Key(key) => match app.input_mode { .. }`: the App after
\* the key is handled
handle_key(a, key) ==
    IF a.input_mode = "Normal" THEN
        CASE key.code = Char(113) -> exit(a)                        \* q
          [] key.code = Char(99) /\ key.ctrl -> exit(a)             \* Ctrl+C
          [] key.code \in {<<"Up">>, Char(107)} -> move_up(a)       \* k
          [] key.code \in {<<"Down">>, Char(106)} -> move_down(a)   \* j
          [] key.code \in {<<"Home">>, Char(103)} -> move_to_top(a)
          [] key.code \in {<<"End">>, Char(71)} -> move_to_bottom(a)
          [] key.code = <<"Enter">> -> toggle_view_mode(a)
          [] key.code \in {Char(104), Char(63)} -> show_help(a)     \* h ?
          [] key.code = Char(112) -> prev_file(a)                   \* p
          [] key.code = Char(47) -> enter_search_mode(a)            \* /
          [] key.code = Char(110) -> next_search_result(a)          \* n
          [] key.code = Char(78) -> prev_search_result(a)           \* N
          [] key.code = Char(102) -> enter_filter_mode(a)           \* f
          [] key.code = Char(105) ->                                \* i
                With(toggle_case_sensitivity(a), LAMBDA r :
                    IF r.ok THEN r.app
                    ELSE [r.app EXCEPT !.status_message =
                                           <<"Error toggling case sensitivity:">>])
          [] OTHER -> a
    ELSE IF a.input_mode = "Search" THEN
        CASE key.code[1] = "Char" -> handle_search_input(a, key.code[2])
          [] key.code = <<"Enter">> -> handle_search_input(a, 10)
          [] key.code = <<"Backspace">> -> handle_search_input(a, 8)
          [] key.code = <<"Esc">> -> handle_search_input(a, 27)
          [] OTHER -> a
    ELSE
        CASE key.code[1] = "Char" -> handle_filter_input(a, key.code[2])
          [] key.code = <<"Enter">> -> handle_filter_input(a, 10)
          [] key.code = <<"Backspace">> -> handle_filter_input(a, 8)
          [] key.code = <<"Esc">> -> handle_filter_input(a, 27)
          [] OTHER -> a

\* run_app, `match event_handler.next()? { .. }`
handle_event(a, ev) ==
    IF ev[1] = "Key" THEN handle_key(a, ev[2]) ELSE a

\* values of the variables a specification does not use
IdxIdle ==
    mmap = <<>> /\ pos = 0 /\ index = <<>> /\ pc = "idle" /\ gm = None
ParIdle ==
    /\ par_file = None /\ par_job = None /\ par_slot = <<>>
    /\ par_pc = "idle" /\ par_out = None
AppIdle ==
    app = None /\ crashed = FALSE /\ last_op = None
TimeIdle ==
    ts = None
LoopIdle ==
    chan = <<>> /\ ev_pc = "idle" /\ main_pc = "idle"

----------------------------------------------------------------------------
(* SpecIndex: DltFile::build_index step by step, then get_message          *)

InitIndex ==
    /\ mmap \in Files
    /\ pos = 0
    /\ index = <<>>
    /\ pc = "scan"
    /\ gm = None
    /\ ParIdle
    /\ AppIdle
    /\ TimeIdle
    /\ LoopIdle

ScanState == [pos |-> pos, index |-> index, done |-> FALSE]

ScanApply ==
    LET st == build_index_iter(mmap, ScanState) IN
    /\ pos' = st.pos
    /\ index' = st.index
    /\ pc' = IF st.done THEN "done" ELSE "scan"
    /\ UNCHANGED <<mmap, gm, parVars, appVars, timeVars, loopVars>>

\* loop exit: the while condition fails or fewer than 16 bytes remain
ScanBreak ==
    /\ pc = "scan"
    /\ pos + 16 > Len(mmap)
    /\ ScanApply

\* magic found, length usable: record the position, skip the record
ScanSkip ==
    /\ pc = "scan"
    /\ pos + 16 <= Len(mmap)
    /\ IsMagic(mmap, pos)
    /\ pos + 20 <= Len(mmap)
    /\ U16LE(mmap, pos + 18) > 0
    /\ pos + U16LE(mmap, pos + 18) <= Len(mmap)
    /\ ScanApply

\* magic found, length unusable: record the position, advance one byte
ScanRecordAdvance ==
    /\ pc = "scan"
    /\ pos + 16 <= Len(mmap)
    /\ IsMagic(mmap, pos)
    /\ ~(/\ pos + 20 <= Len(mmap)
         /\ U16LE(mmap, pos + 18) > 0
         /\ pos + U16LE(mmap, pos + 18) <= Len(mmap))
    /\ ScanApply

\* no magic: advance one byte
ScanAdvance ==
    /\ pc = "scan"
    /\ pos + 16 <= Len(mmap)
    /\ ~IsMagic(mmap, pos)
    /\ ScanApply

\* DltFile::get_message(idx) on the opened file
GetMessage ==
    /\ pc = "done"
    /\ \E idx \in 0..Len(index) :
          gm' = Some([idx |-> idx,
                      res |-> get_message([mmap |-> mmap, index |-> index], idx)])
    /\ UNCHANGED <<mmap, pos, index, pc, parVars, appVars, timeVars, loopVars>>

NextIndex ==
    \/ ScanBreak
    \/ ScanSkip
    \/ ScanRecordAdvance
    \/ ScanAdvance
    \/ GetMessage

SpecIndex == InitIndex /\ [][NextIndex]_vars

----------------------------------------------------------------------------
(* Spec: the session driven as main and run_app drive it.  Files are       *)
(* loaded, a text filter and a search are applied, and keys are dispatched *)
(* on the input mode.  A panic ends the process; the main loop ends once   *)
(* should_exit is set.                                                     *)

\* characters the user types: 'a' and '('
TypedKeys == {97, 40}
\* Enter, Backspace, Esc as handle_*_input receives them
ControlKeys == {10, 8, 27}
\* patterns given on the command line: "a" and "("
ApiPatterns == {<<97>>, <<40>>}

Init ==
    /\ app = App_new
    /\ crashed = FALSE
    /\ last_op = None
    /\ IdxIdle
    /\ ParIdle
    /\ TimeIdle
    /\ LoopIdle

Running == ~crashed /\ ~app.should_exit
Normal == Running /\ app.input_mode = "Normal"

Did(op, ok) == last_op' = Some([op |-> op, ok |-> ok])
Rest == UNCHANGED <<idxVars, parVars, timeVars, loopVars>>

LoadFile ==
    /\ Normal
    /\ Len(app.files) < MaxFiles
    /\ \E path \in Paths :
          \E r \in {load_file(app, path)} :
              /\ app' = r.app
              /\ crashed' = (r.kind = "Panic")
              /\ Did("load_file", r.kind = "Ok")
    /\ Rest

ApplyTextFilter ==
    /\ Normal
    /\ \E pattern \in ApiPatterns :
          \E r \in {apply_text_filter(app, pattern)} :
              app' = r.app /\ Did("apply_text_filter", r.ok)
    /\ UNCHANGED crashed /\ Rest

Search ==
    /\ Normal
    /\ \E pattern \in ApiPatterns :
          \E r \in {search(app, pattern)} :
              app' = r.app /\ Did("search", r.ok)
    /\ UNCHANGED crashed /\ Rest

\* key 'i': toggle_case_sensitivity, an error goes to the status message
ToggleCaseSensitivity ==
    /\ Normal
    /\ IsSome(app.search_pattern) =>
           LeadingFlags(Unwrap(app.search_pattern)) < MaxFlags
    /\ \E r \in {toggle_case_sensitivity(app)} :
          /\ app' = IF r.ok THEN r.app
                    ELSE [r.app EXCEPT !.status_message =
                                           <<"Error toggling case sensitivity:">>]
          /\ Did("toggle_case_sensitivity", r.ok)
    /\ UNCHANGED crashed /\ Rest

NextSearchResult ==
    /\ Normal
    /\ app' = next_search_result(app)
    /\ Did("next_search_result", TRUE)
    /\ UNCHANGED crashed /\ Rest

PrevSearchResult ==
    /\ Normal
    /\ app' = prev_search_result(app)
    /\ Did("prev_search_result", TRUE)
    /\ UNCHANGED crashed /\ Rest

MoveUp ==
    /\ Normal
    /\ app' = move_up(app)
    /\ Did("move_up", TRUE)
    /\ UNCHANGED crashed /\ Rest

MoveDown ==
    /\ Normal
    /\ app' = move_down(app)
    /\ Did("move_down", TRUE)
    /\ UNCHANGED crashed /\ Rest

MoveToTop ==
    /\ Normal
    /\ app' = move_to_top(app)
    /\ Did("move_to_top", TRUE)
    /\ UNCHANGED crashed /\ Rest

MoveToBottom ==
    /\ Normal
    /\ app' = move_to_bottom(app)
    /\ Did("move_to_bottom", TRUE)
    /\ UNCHANGED crashed /\ Rest

NextFile ==
    /\ Normal
    /\ app' = next_file(app)
    /\ Did("next_file", TRUE)
    /\ UNCHANGED crashed /\ Rest

PrevFile ==
    /\ Normal
    /\ app' = prev_file(app)
    /\ Did("prev_file", TRUE)
    /\ UNCHANGED crashed /\ Rest

EnterSearchMode ==
    /\ Normal
    /\ app' = enter_search_mode(app)
    /\ Did("enter_search_mode", TRUE)
    /\ UNCHANGED crashed /\ Rest

EnterFilterMode ==
    /\ Normal
    /\ app' = enter_filter_mode(app)
    /\ Did("enter_filter_mode", TRUE)
    /\ UNCHANGED crashed /\ Rest

\* a key in InputMode::Search; ok is false when Enter submitted a pattern
\* that search rejected
HandleSearchInput ==
    /\ Running
    /\ app.input_mode = "Search"
    /\ \E key \in TypedKeys \cup ControlKeys :
          /\ key \in TypedKeys => Len(app.command_input) < MaxInput
          /\ app' = handle_search_input(app, key)
          /\ Did("handle_search_input",
                 ~(key = 10 /\ app.command_input # <<>>
                     /\ ~search(app, app.command_input).ok))
    /\ UNCHANGED crashed /\ Rest

\* a key in InputMode::Filter
HandleFilterInput ==
    /\ Running
    /\ app.input_mode = "Filter"
    /\ \E key \in TypedKeys \cup ControlKeys :
          /\ key \in TypedKeys => Len(app.command_input) < MaxInput
          /\ app' = handle_filter_input(app, key)
          /\ Did("handle_filter_input",
                 ~(key = 10 /\ app.command_input # <<>>
                     /\ ~apply_text_filter(app, app.command_input).ok))
    /\ UNCHANGED crashed /\ Rest

\* key 'q' or Ctrl+C in normal mode
Exit ==
    /\ Normal
    /\ app' = exit(app)
    /\ Did("exit", TRUE)
    /\ UNCHANGED crashed /\ Rest

Next ==
    \/ LoadFile
    \/ ApplyTextFilter
    \/ Search
    \/ ToggleCaseSensitivity
    \/ NextSearchResult
    \/ PrevSearchResult
    \/ MoveUp
    \/ MoveDown
    \/ MoveToTop
    \/ MoveToBottom
    \/ NextFile
    \/ PrevFile
    \/ EnterSearchMode
    \/ EnterFilterMode
    \/ HandleSearchInput
    \/ HandleFilterInput
    \/ Exit

Spec == Init /\ [][Next]_vars

----------------------------------------------------------------------------
(* Properties of the message index and the accessor (SpecIndex)            *)

OpenedFile == [mmap |-> mmap, index |-> index]

\* C1: at every point of build_index the offsets recorded so far are
\* strictly ascending, each is >= 0 and < the file length, and the four
\* bytes at each recorded offset are 'D','L','T',0x01.
C1_IndexOffsetsValid ==
    /\ StrictlyAscending(index)
    /\ \A k \in 1..Len(index) :
          /\ index[k] >= 0
          /\ index[k] < Len(mmap)
          /\ index[k] + 4 <= Len(mmap)
          /\ Slice(mmap, index[k], index[k] + 4) = <<68, 76, 84, 1>>

\* a finished scan that resynchronised: an entry that does not start the
\* file, and one that does not follow its predecessor's length field
C1_Witness ==
    /\ pc = "done"
    /\ Len(index) >= 2
    /\ index[1] > 0
    /\ \E k \in 1..(Len(index) - 1) :
          index[k + 1] # index[k] + U16LE(mmap, index[k] + 18)

\* the record at offset p has a length field that exceeds the bytes left
TruncatedAt(m, p) ==
    p + 20 <= Len(m) /\ p + U16LE(m, p + 18) > Len(m)

\* C3: a position whose record's length field exceeds the bytes remaining
\* to end of file is never recorded in the index.
C3_TruncatedExcluded ==
    \A k \in 1..Len(index) : ~TruncatedAt(mmap, index[k])

\* C4: for F3 (two well-formed records, the second's length field
\* overwritten with 0) the index has exactly two entries and get_message(1)
\* returns a message.
C4_ZeroLengthSecondParses ==
    (mmap = F3 /\ pc = "done") =>
        /\ Len(index) = 2
        /\ get_message(OpenedFile, 1).kind = "Ok"

\* C5: once the index is built, get_message(i) succeeds for every i below
\* message_count, and the parsed length field equals offset[i+1]-offset[i]
\* whenever i+1 < message_count.
C5_EveryIndexedMessageParses ==
    pc = "done" =>
        \A i \in 0..(message_count(OpenedFile) - 1) :
            LET r == get_message(OpenedFile, i) IN
            /\ r.kind = "Ok"
            /\ (i + 1 < message_count(OpenedFile) =>
                    r.msg.standard_header.length = index[i + 2] - index[i + 1])

----------------------------------------------------------------------------
(* SpecPar: one FilterEngine::apply or SearchEngine::search call, with the *)
(* closures of the parallel iterator run one at a time in any order        *)

TextA == <<97>>                                    \* "a"
TextUpperA == <<65>>                               \* "A"

Criterias ==
    { FilterCriteria_default,
      [FilterCriteria_default EXCEPT !.text_pattern = Some(TextA)],
      [FilterCriteria_default EXCEPT !.app_id = Some(TextA)],
      [FilterCriteria_default EXCEPT !.context_id = Some(TextA),
                                     !.log_level = Some(<<"Info">>)],
      [FilterCriteria_default EXCEPT
          !.time_range = Some(<<(<<100, 0>>), (<<100, 0>>)>>)],
      [FilterCriteria_default EXCEPT
          !.time_range = Some(<<(<<100, 0>>), (<<101, 500000>>)>>)],
      [FilterCriteria_default EXCEPT !.message_type = Some(<<"Log">>)] }

Engines ==
    { with_case_sensitivity(TextA, TRUE).engine,
      with_case_sensitivity(TextUpperA, TRUE).engine,
      with_case_sensitivity(TextA, FALSE).engine }

Jobs ==
    {[kind |-> "filter", criteria |-> c] : c \in Criterias}
      \cup {[kind |-> "search", engine |-> e] : e \in Engines}

InitPar ==
    /\ par_file \in {DltFile_of(m) : m \in FilesOf(MaxParSegs)}
    /\ par_job \in Jobs
    /\ par_slot = [k \in 1..message_count(par_file) |-> "todo"]
    /\ par_pc = "start"
    /\ par_out = None
    /\ IdxIdle
    /\ AppIdle
    /\ TimeIdle
    /\ LoopIdle

IsFastPath == par_job.kind = "filter" /\ is_empty(par_job.criteria)

\* FilterEngine::apply with empty criteria returns the whole range at once
ParFastPath ==
    /\ par_pc = "start"
    /\ IsFastPath
    /\ par_out' = Some([kind |-> "Ok", v |-> UpTo(message_count(par_file))])
    /\ par_pc' = "done"
    /\ UNCHANGED <<par_file, par_job, par_slot, idxVars, appVars, timeVars, loopVars>>

\* into_par_iter(): the positions are handed to the pool
ParFork ==
    /\ par_pc = "start"
    /\ ~IsFastPath
    /\ par_pc' = "run"
    /\ UNCHANGED <<par_file, par_job, par_slot, par_out, idxVars, appVars, timeVars, loopVars>>

\* some worker runs the closure for some position not yet evaluated
ParEval ==
    /\ par_pc = "run"
    /\ \E k \in 1..Len(par_slot) :
          /\ par_slot[k] = "todo"
          /\ par_slot' = [par_slot EXCEPT ![k] =
                              Closure(par_job, get_message(par_file, k - 1))]
    /\ UNCHANGED <<par_file, par_job, par_pc, par_out, idxVars, appVars, timeVars, loopVars>>

\* collect(): every closure has returned
ParJoin ==
    /\ par_pc = "run"
    /\ \A k \in 1..Len(par_slot) : par_slot[k] \in {"some", "none"}
    /\ par_out' = Some([kind |-> "Ok", v |-> Collect(par_slot, Len(par_slot))])
    /\ par_pc' = "done"
    /\ UNCHANGED <<par_file, par_job, par_slot, idxVars, appVars, timeVars, loopVars>>

\* a closure panicked: the panic resumes in the caller, nothing is returned
ParPanic ==
    /\ par_pc = "run"
    /\ \E k \in 1..Len(par_slot) : par_slot[k] = "panic"
    /\ par_out' = Some([kind |-> "Panic"])
    /\ par_pc' = "done"
    /\ UNCHANGED <<par_file, par_job, par_slot, idxVars, appVars, timeVars, loopVars>>

NextPar ==
    \/ ParFastPath
    \/ ParFork
    \/ ParEval
    \/ ParJoin
    \/ ParPanic

SpecPar == InitPar /\ [][NextPar]_vars

\* the pattern matches at least one of the four textual projections
AnyProjectionMatches(re, msg) ==
    \/ IsSome(msg.payload_text) /\ is_match(re, Unwrap(msg.payload_text))
    \/ IsSome(app_id(msg)) /\ is_match(re, Unwrap(app_id(msg)))
    \/ IsSome(context_id(msg)) /\ is_match(re, Unwrap(context_id(msg)))
    \/ is_match(re, ecu_id(msg))

\* C2: for every message a search has evaluated, SearchEngine::matches is
\* true exactly when the pattern matches the payload text (if present), the
\* app-id, the context-id or the ecu-id.
C2_MatchesAnyProjection ==
    par_pc # "idle" /\ par_job.kind = "search" =>
        \A k \in 1..Len(par_slot) :
            LET r == get_message(par_file, k - 1) IN
            (par_slot[k] # "todo" /\ r.kind = "Ok") =>
                ((par_slot[k] = "some")
                    <=> AnyProjectionMatches(par_job.engine.pattern, r.msg))

\* the ascending list of the members of a set of positions below n
RECURSIVE SortedBelow(_, _)
SortedBelow(S, n) ==
    IF n = 0 THEN <<>>
    ELSE IF (n - 1) \in S THEN Append(SortedBelow(S, n - 1), n - 1)
    ELSE SortedBelow(S, n - 1)

\* C6: FilterEngine::apply returns exactly the positions i below
\* message_count whose message satisfies the criteria, in strictly
\* ascending order without duplicates, whatever order the workers ran in.
C6_FilterIsSortedSubset ==
    (par_pc = "done" /\ par_job.kind = "filter") =>
        LET n == message_count(par_file)
            hits == {i \in 0..(n - 1) :
                        /\ get_message(par_file, i).kind = "Ok"
                        /\ FilterCriteria_matches(par_job.criteria,
                                                  get_message(par_file, i).msg)}
        IN  par_out = Some([kind |-> "Ok", v |-> SortedBelow(hits, n)])

----------------------------------------------------------------------------
(* Properties of the session (Spec)                                        *)

\* C7: in every reachable session state selected_message_idx is 0 when
\* filtered_messages is empty and otherwise lies in
\* [0, |filtered_messages|), so selected_message never indexes out of bounds.
C7_SelectionInBounds ==
    IF app.filtered_messages = <<>>
    THEN app.selected_message_idx = 0
    ELSE /\ 0 <= app.selected_message_idx
         /\ app.selected_message_idx < Len(app.filtered_messages)

\* move_down was called with the cursor on the last of several messages
C7_Witness ==
    /\ last_op = Some([op |-> "move_down", ok |-> TRUE])
    /\ Len(app.filtered_messages) >= 2
    /\ app.selected_message_idx = Len(app.filtered_messages) - 1

\* the filter or the current file has changed in this step
FilterOrFileChanged ==
    \/ app'.filtered_messages # app.filtered_messages
    \/ app'.filter # app.filter
    \/ app'.current_file_idx # app.current_file_idx
    \/ last_op' = Some([op |-> "apply_text_filter", ok |-> TRUE])
    \/ /\ Len(app.files) > 1
       /\ last_op' \in {Some([op |-> "next_file", ok |-> TRUE]),
                        Some([op |-> "prev_file", ok |-> TRUE])}

SearchResultsValid ==
    /\ StrictlyAscending(app.search_results)
    /\ \A k \in 1..Len(app.search_results) :
          /\ 0 <= app.search_results[k]
          /\ app.search_results[k] < Len(app.filtered_messages)
    /\ IF app.search_results = <<>>
       THEN app.current_search_idx = 0
       ELSE /\ 0 <= app.current_search_idx
            /\ app.current_search_idx < Len(app.search_results)

\* C8: in every reachable session state search_results is a strictly
\* ascending list of indices below |filtered_messages| and
\* current_search_idx is 0 when search_results is empty and below
\* |search_results| otherwise; a step that changes the filter or the current
\* file leaves no search hit behind.
C8_SearchResultsCurrent ==
    /\ []SearchResultsValid
    /\ [][FilterOrFileChanged =>
             /\ app'.search_results = <<>>
             /\ app'.current_search_idx = 0]_vars

\* hits of a search over a filter result that is not the whole file: the
\* hit is a position in the filter result, not a message position
C8_Witness ==
    /\ app.search_results # <<>>
    /\ app.filtered_messages[app.search_results[1] + 1] # app.search_results[1]
    /\ IsSome(app.filter.text_pattern)

\* the compiled pattern of the search engine, None without an engine
engine_pattern(a) ==
    IF IsSome(a.search_engine) THEN Some(Unwrap(a.search_engine).pattern)
    ELSE None

\* the part of the session a search owns
SearchStateUnchanged ==
    /\ app'.search_results = app.search_results
    /\ app'.current_search_idx = app.current_search_idx
    /\ app'.search_pattern = app.search_pattern
    /\ app'.selected_message_idx = app.selected_message_idx
    /\ app'.filtered_messages = app.filtered_messages
    /\ engine_pattern(app') = engine_pattern(app)

\* C9: a call of search whose pattern fails to compile returns an error and
\* leaves search_results, current_search_idx, search_pattern,
\* selected_message_idx, filtered_messages and the engine's compiled pattern
\* unchanged.
C9_FailedSearchKeepsState ==
    [][last_op' = Some([op |-> "search", ok |-> FALSE])
          => SearchStateUnchanged]_vars

\* a search failed in a session that holds the hits of an earlier search
\* and has stepped through them
C9_Witness ==
    /\ last_op = Some([op |-> "search", ok |-> FALSE])
    /\ Len(app.search_results) >= 2
    /\ app.current_search_idx > 0
    /\ IsSome(app.search_pattern)

\* C10: when Enter submits an invalid pattern in InputMode::Search, the
\* status line drawn once the key is handled carries the compile-failure
\* message, and the prior search state is preserved.
C10_InvalidPatternShown ==
    [][last_op' = Some([op |-> "handle_search_input", ok |-> FALSE])
          => /\ IsSome(status_line_message(app'))
             /\ Unwrap(status_line_message(app'))[1] = "Invalid search pattern:"
             /\ SearchStateUnchanged]_vars

\* the pattern the user entered: the stored pattern without inline flags
\* (the patterns entered in this model carry none of their own)
user_pattern(a) == Literal(Unwrap(a.search_pattern))

\* the pattern the session's flag calls for
pattern_for_flag(a) ==
    IF a.case_sensitive_search THEN user_pattern(a)
    ELSE WithCiPrefix(user_pattern(a))

\* the hits of the user's pattern in the mode the flag calls for
hits_for_flag(a) ==
    IF a.files = <<>> \/ a.filtered_messages = <<>> THEN <<>>
    ELSE search_hits([pattern |-> pattern_for_flag(a),
                      case_sensitive |-> a.case_sensitive_search],
                     current_file(a), a.filtered_messages,
                     Len(a.filtered_messages))

\* C11: after a search or a toggle_case_sensitivity the compiled pattern of
\* the active search is the user's pattern without a case-insensitive prefix
\* when case_sensitive_search is true and with exactly one such prefix when
\* it is false, and the hits are those of the user's pattern in that mode
\* (so that toggling twice gives the hits of the original search).
C11_ModeFollowsFlag ==
    (/\ IsSome(app.search_engine)
     /\ IsSome(app.search_pattern)
     /\ last_op \in {Some([op |-> "search", ok |-> TRUE]),
                     Some([op |-> "toggle_case_sensitivity", ok |-> TRUE])})
    => /\ Unwrap(app.search_engine).pattern = pattern_for_flag(app)
       /\ app.search_results = hits_for_flag(app)

\* next_search_result applied n times in a row
RECURSIVE next_times(_, _)
next_times(a, n) ==
    IF n = 0 THEN a ELSE next_search_result(next_times(a, n - 1))

\* prev_search_result wraps from 0 to the last hit, and both operations do
\* nothing without hits
PrevWrapsAndNoHitsNoOp ==
    /\ (app.search_results # <<>> /\ app.current_search_idx = 0) =>
           prev_search_result(app).current_search_idx
               = Len(app.search_results) - 1
    /\ app.search_results = <<>> =>
           /\ next_search_result(app) = app
           /\ prev_search_result(app) = app

\* C12: next_search_result applied |search_results| times (at least one
\* hit) returns current_search_idx, and with it selected_message_idx, to the
\* value it had before; prev_search_result wraps from 0 to
\* |search_results|-1; with no hits both are no-ops.
C12_NextWrapsAround ==
    /\ app.search_results # <<>> =>
          LET b == next_times(app, Len(app.search_results)) IN
          /\ b.current_search_idx = app.current_search_idx
          /\ b.selected_message_idx = app.selected_message_idx
    /\ PrevWrapsAndNoHitsNoOp

\* C12 (amended): next_search_result applied |search_results| times returns
\* current_search_idx to the value it had before and leaves the selection on
\* that hit, search_results[current_search_idx], which is the selection it
\* had before only if the selection was on that hit; prev_search_result
\* wraps from 0 to |search_results|-1; with no hits both are no-ops.
C12_NextWrapsCursor ==
    /\ app.search_results # <<>> =>
          LET b == next_times(app, Len(app.search_results)) IN
          /\ b.current_search_idx = app.current_search_idx
          /\ b.selected_message_idx
                 = app.search_results[app.current_search_idx + 1]
          /\ b.search_results = app.search_results
    /\ PrevWrapsAndNoHitsNoOp

\* next_search_result has wrapped from the last of several hits to the first
C12_Witness ==
    /\ last_op = Some([op |-> "next_search_result", ok |-> TRUE])
    /\ Len(app.search_results) >= 2
    /\ app.current_search_idx = 0

\* C13: right after a successful search with at least one hit, and right
\* after every next_search_result or prev_search_result with at least one
\* hit, selected_message_idx equals search_results[current_search_idx]
\* (after search: the first hit, with current_search_idx = 0); a successful
\* search with no hit leaves selected_message_idx unchanged.
C13_SelectionOnHit ==
    [][/\ (/\ last_op' \in {Some([op |-> "search", ok |-> TRUE]),
                            Some([op |-> "next_search_result", ok |-> TRUE]),
                            Some([op |-> "prev_search_result", ok |-> TRUE])}
           /\ app'.search_results # <<>>)
          => app'.selected_message_idx
                 = app'.search_results[app'.current_search_idx + 1]
       /\ (/\ last_op' = Some([op |-> "search", ok |-> TRUE])
           /\ app'.search_results # <<>>)
          => /\ app'.current_search_idx = 0
             /\ app'.selected_message_idx = app'.search_results[1]
       /\ (/\ last_op' = Some([op |-> "search", ok |-> TRUE])
           /\ app'.search_results = <<>>)
          => app'.selected_message_idx = app.selected_message_idx]_vars

\* prev_search_result has wrapped from the first of several hits to the last
C13_Witness ==
    /\ last_op = Some([op |-> "prev_search_result", ok |-> TRUE])
    /\ Len(app.search_results) >= 2
    /\ app.current_search_idx = Len(app.search_results) - 1
    /\ app.selected_message_idx = app.search_results[Len(app.search_results)]

\* the filter result of the session's criteria on its current file
filter_result(a) ==
    IF a.files = <<>> THEN <<>>
    ELSE FilterEngine_apply(a.filter, current_file(a)).v

\* the search is cleared: no hits, search cursor 0, no pattern left active
SearchCleared(a) ==
    /\ a.search_results = <<>>
    /\ a.current_search_idx = 0
    /\ a.search_pattern = None

\* C14: after a successful apply_text_filter the criteria of the session and
\* of its filter engine are the new criteria, filtered_messages is the
\* filter result of the new criteria on the current file, the search is
\* cleared (no hits, search cursor 0, no search pattern left active) and
\* selected_message_idx is 0; when the pattern fails to compile, criteria,
\* filter result, selection and search state are unchanged.
C14_TextFilterReplacesCriteria ==
    [][/\ last_op' = Some([op |-> "apply_text_filter", ok |-> TRUE]) =>
             /\ IsSome(app'.filter.text_pattern)
             /\ app'.filter = [app.filter EXCEPT
                                  !.text_pattern = app'.filter.text_pattern]
             /\ app'.filter_engine = Some([criteria |-> app'.filter])
             /\ app'.filtered_messages = filter_result(app')
             /\ SearchCleared(app')
             /\ app'.selected_message_idx = 0
       /\ last_op' = Some([op |-> "apply_text_filter", ok |-> FALSE]) =>
             /\ app'.filter = app.filter
             /\ app'.filter_engine = app.filter_engine
             /\ app'.filtered_messages = app.filtered_messages
             /\ app'.selected_message_idx = app.selected_message_idx
             /\ app'.search_results = app.search_results
             /\ app'.current_search_idx = app.current_search_idx
             /\ app'.search_pattern = app.search_pattern
             /\ app'.search_engine = app.search_engine]_vars

\* the effect claimed of a file switch to position idx
SwitchedTo(idx) ==
    /\ app'.current_file_idx = idx
    /\ app'.filtered_messages = filter_result(app')
    /\ SearchCleared(app')
    /\ app'.selected_message_idx = 0

\* C15: with at least two open files next_file / prev_file move
\* current_file_idx to the next / previous index modulo the number of files,
\* recompute filtered_messages for that file, clear the search (no hits,
\* search cursor 0, no search pattern left active) and reset
\* selected_message_idx to 0; with zero or one open file they change
\* nothing; current_file_idx is below |files| whenever files is not empty.
C15_FileSwitch ==
    /\ [](app.files # <<>> => app.current_file_idx < Len(app.files))
    /\ [][/\ (/\ last_op' = Some([op |-> "next_file", ok |-> TRUE])
              /\ Len(app.files) >= 2)
             => SwitchedTo((app.current_file_idx + 1) % Len(app.files))
          /\ (/\ last_op' = Some([op |-> "prev_file", ok |-> TRUE])
              /\ Len(app.files) >= 2)
             => SwitchedTo((app.current_file_idx + Len(app.files) - 1)
                               % Len(app.files))
          /\ (/\ last_op' \in {Some([op |-> "next_file", ok |-> TRUE]),
                               Some([op |-> "prev_file", ok |-> TRUE])}
              /\ Len(app.files) < 2)
             => app' = app]_vars

\* the last file of the session and its secondary index are those of a file
\* on Disk that opens and indexes
AppendedFromDisk(a) ==
    \E path \in Paths :
        /\ DltFile_open(path).kind = "Ok"
        /\ Index_new(DltFile_open(path).file).kind = "Ok"
        /\ a.files[Len(a.files)] = Held(DltFile_open(path).file)
        /\ a.indices[Len(a.indices)]
               = Index_new(DltFile_open(path).file).index

\* C16: a successful load_file appends the file and its secondary index to
\* the session; the first file becomes current and the filter result is
\* recomputed; for any later file current_file_idx, filtered_messages,
\* selected_message_idx, search_results and current_search_idx are unchanged.
C16_LoadFileAppends ==
    [][last_op' = Some([op |-> "load_file", ok |-> TRUE]) =>
          /\ Len(app'.files) = Len(app.files) + 1
          /\ Len(app'.indices) = Len(app.indices) + 1
          /\ SubSeq(app'.files, 1, Len(app.files)) = app.files
          /\ SubSeq(app'.indices, 1, Len(app.indices)) = app.indices
          /\ AppendedFromDisk(app')
          /\ IF app.files = <<>>
             THEN /\ app'.current_file_idx = 0
                  /\ app'.filtered_messages = filter_result(app')
             ELSE /\ app'.current_file_idx = app.current_file_idx
                  /\ app'.filtered_messages = app.filtered_messages
                  /\ app'.selected_message_idx = app.selected_message_idx
                  /\ app'.search_results = app.search_results
                  /\ app'.current_search_idx = app.current_search_idx]_vars

\* a second file was loaded into a session with hits and a moved selection
C16_Witness ==
    /\ last_op = Some([op |-> "load_file", ok |-> TRUE])
    /\ Len(app.files) = 2
    /\ app.search_results # <<>>
    /\ app.selected_message_idx > 0

\* what a cursor movement leaves alone
MoveFrame ==
    /\ app'.filtered_messages = app.filtered_messages
    /\ app'.search_results = app.search_results
    /\ app'.current_search_idx = app.current_search_idx
    /\ app'.current_file_idx = app.current_file_idx
    /\ app'.files = app.files

\* C17: move_up decrements the selection unless it is 0; move_down
\* increments it unless it is the last index of the filter result or the
\* result is empty; move_to_top sets it to 0; move_to_bottom sets it to
\* |filtered_messages|-1 (unchanged when empty); none of the four changes
\* the filter result, the search hits, the search cursor or the current file.
C17_CursorMoves ==
    [][/\ last_op' = Some([op |-> "move_up", ok |-> TRUE]) =>
             /\ app'.selected_message_idx
                    = IF app.selected_message_idx = 0 THEN 0
                      ELSE app.selected_message_idx - 1
             /\ MoveFrame
       /\ last_op' = Some([op |-> "move_down", ok |-> TRUE]) =>
             /\ app'.selected_message_idx
                    = IF \/ app.filtered_messages = <<>>
                         \/ app.selected_message_idx
                                = Len(app.filtered_messages) - 1
                      THEN app.selected_message_idx
                      ELSE app.selected_message_idx + 1
             /\ MoveFrame
       /\ last_op' = Some([op |-> "move_to_top", ok |-> TRUE]) =>
             /\ app'.selected_message_idx = 0
             /\ MoveFrame
       /\ last_op' = Some([op |-> "move_to_bottom", ok |-> TRUE]) =>
             /\ app'.selected_message_idx
                    = IF app.filtered_messages = <<>>
                      THEN app.selected_message_idx
                      ELSE Len(app.filtered_messages) - 1
             /\ MoveFrame]_vars

\* move_to_bottom in a session with several messages and search hits
C17_Witness ==
    /\ last_op = Some([op |-> "move_to_bottom", ok |-> TRUE])
    /\ Len(app.filtered_messages) >= 2
    /\ app.selected_message_idx = Len(app.filtered_messages) - 1
    /\ app.search_results # <<>>

----------------------------------------------------------------------------
(* Properties of FilterEngine::apply and FilterCriteria::matches (SpecPar) *)

\* C18: FilterEngine::apply with criteria that set no constraint returns
\* exactly the list 0, 1, ..., message_count-1, for every file.
C18_EmptyCriteriaWholeRange ==
    (par_pc = "done" /\ par_job.kind = "filter"
       /\ par_job.criteria = FilterCriteria_default) =>
        LET whole == [kind |-> "Ok",
                      v |-> [k \in 1..message_count(par_file) |-> k - 1]] IN
        /\ par_out = Some(whole)
        /\ FilterEngine_apply(par_job.criteria, par_file) = whole

\* apply has returned for empty criteria and a file of several indexed
\* positions, one of which does not parse
C18_Witness ==
    /\ par_pc = "done"
    /\ par_job.kind = "filter"
    /\ par_job.criteria = FilterCriteria_default
    /\ message_count(par_file) >= 2
    /\ \E i \in 0..(message_count(par_file) - 1) :
          get_message(par_file, i).kind # "Ok"

\* t lies in the closed interval [range[1], range[2]]
InClosedRange(t, range) ==
    /\ range[1][1] < t[1] \/ (range[1][1] = t[1] /\ range[1][2] <= t[2])
    /\ t[1] < range[2][1] \/ (t[1] = range[2][1] /\ t[2] <= range[2][2])

\* every constraint that is set holds
AllConstraintsHold(c, msg) ==
    /\ IsSome(c.app_id) =>
          /\ IsSome(msg.extended_header)
          /\ IdStr(Unwrap(msg.extended_header).app_id) = Unwrap(c.app_id)
    /\ IsSome(c.context_id) =>
          /\ IsSome(msg.extended_header)
          /\ IdStr(Unwrap(msg.extended_header).context_id)
                 = Unwrap(c.context_id)
    /\ IsSome(c.log_level) =>
          /\ IsSome(msg.extended_header)
          /\ Unwrap(msg.extended_header).log_level = Unwrap(c.log_level)
    /\ IsSome(c.time_range) =>
          InClosedRange(timestamp(msg), Unwrap(c.time_range))
    /\ IsSome(c.message_type) =>
          msg.standard_header.message_type = Unwrap(c.message_type)
    /\ IsSome(c.text_pattern) =>
          /\ IsSome(msg.payload_text)
          /\ is_match(Unwrap(c.text_pattern), Unwrap(msg.payload_text))

\* C19: FilterCriteria::matches accepts a message exactly when every
\* constraint that is set holds: app_id, context_id and log_level reject a
\* message without extended header or with a different field; time_range
\* accepts timestamps equal to either endpoint; text_pattern rejects a
\* message without payload_text and otherwise requires a match in the text.
C19_MatchesIsConjunction ==
    (par_pc # "idle" /\ par_job.kind = "filter") =>
        \A k \in 1..Len(par_slot) :
            LET r == get_message(par_file, k - 1) IN
            (par_slot[k] # "todo" /\ r.kind = "Ok") =>
                ((par_slot[k] = "some")
                    <=> AllConstraintsHold(par_job.criteria, r.msg))

\* a time range whose end is the timestamp of an accepted message and whose
\* start is the timestamp of another accepted message
C19_Witness ==
    /\ par_pc = "done"
    /\ par_job.kind = "filter"
    /\ IsSome(par_job.criteria.time_range)
    /\ \E k \in 1..Len(par_slot) :
          /\ par_slot[k] = "some"
          /\ timestamp(get_message(par_file, k - 1).msg)
                 = Unwrap(par_job.criteria.time_range)[2]
    /\ \E k \in 1..Len(par_slot) :
          /\ par_slot[k] = "some"
          /\ timestamp(get_message(par_file, k - 1).msg)
                 = Unwrap(par_job.criteria.time_range)[1]
          /\ Unwrap(par_job.criteria.time_range)[1]
                 # Unwrap(par_job.criteria.time_range)[2]

----------------------------------------------------------------------------
(* Properties of the secondary index (Spec)                                *)

Elems(s) == {s[k] : k \in 1..Len(s)}

\* the position lists of one field kind are complete for the positions in
\* exposed, disjoint and strictly ascending
FieldIndexComplete(map, exposed) ==
    /\ UNION {Elems(map[key]) : key \in DOMAIN map} = exposed
    /\ \A p \in exposed :
          Cardinality({key \in DOMAIN map : p \in Elems(map[key])}) = 1
    /\ \A key \in DOMAIN map : StrictlyAscending(map[key])

\* a key no message of the model carries: "zz", and a level no record uses
UnknownKey == <<122, 122>>
UnknownLevel == <<"Verbose">>

\* C20: for every file the session has indexed, and each field kind, the
\* union of the position lists is the set of positions whose header exposes
\* the field (all positions for ecu-id, those with an extended header for
\* app-id, context-id and log-level), every such position is in exactly one
\* list, every list is strictly ascending, each list is the lookup result
\* of its key, and a lookup with an unknown key returns the empty list.
C20_SecondaryIndexComplete ==
    \A k \in 1..Len(app.indices) :
        LET ix == app.indices[k]
            msgs == messages(Mapped(app.files[k]))
            all == 0..(Len(msgs) - 1)
            ext == {p \in all : IsSome(msgs[p + 1].msg.extended_header)}
        IN  /\ FieldIndexComplete(ix.ecu_id_index, all)
            /\ FieldIndexComplete(ix.app_id_index, ext)
            /\ FieldIndexComplete(ix.context_id_index, ext)
            /\ FieldIndexComplete(ix.log_level_index, ext)
            /\ \A p \in all :
                  p \in Elems(messages_by_ecu_id(ix, ecu_id(msgs[p + 1].msg)))
            /\ \A p \in ext :
                  /\ p \in Elems(messages_by_app_id(
                                     ix, Unwrap(app_id(msgs[p + 1].msg))))
                  /\ p \in Elems(messages_by_context_id(
                                     ix, Unwrap(context_id(msgs[p + 1].msg))))
                  /\ p \in Elems(messages_by_log_level(
                                     ix, Unwrap(log_level(msgs[p + 1].msg))))
            /\ messages_by_app_id(ix, UnknownKey) = <<>>
            /\ messages_by_context_id(ix, UnknownKey) = <<>>
            /\ messages_by_ecu_id(ix, UnknownKey) = <<>>
            /\ messages_by_log_level(ix, UnknownLevel) = <<>>

\* an indexed file with a key shared by two messages and a message without
\* extended header
C20_Witness ==
    /\ last_op = Some([op |-> "load_file", ok |-> TRUE])
    /\ \E k \in 1..Len(app.indices) :
          /\ \E key \in DOMAIN app.indices[k].app_id_index :
                Len(app.indices[k].app_id_index[key]) >= 2
          /\ \E p \in 1..Len(messages(Mapped(app.files[k]))) :
                messages(Mapped(app.files[k]))[p].msg.extended_header = None

----------------------------------------------------------------------------
(* Files of well-formed records separated by garbage (SpecIndex)           *)

WellFormed == {RecA, RecB, RecBin}
Garbage == {Junk, NearMagic}

\* a file as a list of pieces, each a well-formed record or a run of
\* garbage, the last one a record
Layouts ==
    {l \in UNION {[1..n -> WellFormed \cup Garbage] : n \in 1..MaxSegs} :
        l[Len(l)] \in WellFormed}

RECURSIVE Flatten(_)
Flatten(l) == IF l = <<>> THEN <<>> ELSE Head(l) \o Flatten(Tail(l))

\* the records of a layout with their start offsets, in file order
RECURSIVE RecordsOf(_, _)
RecordsOf(l, at) ==
    IF l = <<>> THEN <<>>
    ELSE IF Head(l) \in WellFormed
    THEN <<[offset |-> at, bytes |-> Head(l)]>>
             \o RecordsOf(Tail(l), at + Len(Head(l)))
    ELSE RecordsOf(Tail(l), at + Len(Head(l)))

LayoutFiles ==
    {[bytes |-> Flatten(l), records |-> RecordsOf(l, 0),
      garbage |-> \E k \in 1..Len(l) : l[k] \in Garbage] : l \in Layouts}

\* C21: for a file made of well-formed records with magic-free garbage
\* before the first record and between records, build_index returns exactly
\* the list of the records' start offsets, and each message get_message
\* returns is the record alone: it contains none of the garbage bytes.
C21_GarbageAbsorbed ==
    pc = "done" =>
        \A lf \in LayoutFiles :
            lf.bytes = mmap =>
                /\ index = [k \in 1..Len(lf.records) |-> lf.records[k].offset]
                /\ \A k \in 1..Len(lf.records) :
                      LET r == get_message(OpenedFile, k - 1)
                          rec == lf.records[k].bytes IN
                      /\ r.kind = "Ok"
                      /\ r.msg.standard_header.length = Len(rec)
                      /\ r.msg.payload
                             = SubSeq(rec, Len(rec) - Len(r.msg.payload) + 1,
                                      Len(rec))
                      /\ r = DltMessage_parse(rec)

\* a record followed by garbage and a second record has been indexed and
\* its first message read
C21_Witness ==
    /\ pc = "done"
    /\ Len(index) = 2
    /\ index[2] > index[1] + U16LE(mmap, index[1] + 18)
    /\ \E lf \in LayoutFiles : lf.bytes = mmap /\ lf.garbage
    /\ gm # None
    /\ Unwrap(gm).idx = 0
    /\ Unwrap(gm).res.kind = "Ok"

----------------------------------------------------------------------------
(* DltMessage::parse on malformed records (SpecIndex)                      *)

\* the slice get_message hands to DltMessage::parse for position idx
parse_input(f, idx) ==
    Slice(f.mmap, f.index[idx + 1],
          IF idx + 1 < message_count(f) THEN f.index[idx + 2] ELSE Len(f.mmap))

\* the size of the headers of a record: 20 bytes, or 30 with an extended
\* header
headers_size_of(data) ==
    IF At(data, 16) % 2 # 0
    THEN STORAGE_HEADER_SIZE + STANDARD_HEADER_SIZE + EXTENDED_HEADER_SIZE
    ELSE STORAGE_HEADER_SIZE + STANDARD_HEADER_SIZE

\* C22: DltMessage::parse given malformed input, in particular a record
\* whose length field is smaller than the size of the headers already read
\* or larger than the slice it is given, returns an error value; it never
\* panics.
C22_MalformedIsError ==
    (gm # None /\ Unwrap(gm).idx < message_count(OpenedFile)) =>
        LET data == parse_input(OpenedFile, Unwrap(gm).idx)
            r == DltMessage_parse(data) IN
        /\ r.kind # "Panic"
        /\ Unwrap(gm).res.kind # "Panic"
        /\ (/\ Len(data) >= STORAGE_HEADER_SIZE + STANDARD_HEADER_SIZE
            /\ Len(data) >= headers_size_of(data)
            /\ \/ U16LE(data, 18) < headers_size_of(data)
               \/ U16LE(data, 18) > Len(data))
           => r.kind = "Err" /\ Unwrap(gm).res.kind = "Format"

----------------------------------------------------------------------------
(* SpecTime: DltStorageHeader::timestamp on the header fields of a record, *)
(* in each build                                                           *)

\* header values: the model's integers are below 2^31, and a value in the
\* upper half of the u32 range overflows the multiplication like
\* 2147483647 does
TimeSeconds == {0, 59, 100, 2000000000}
TimeMicros == {0, 500, 999999, 1000000, 1999999, 2000000,
               4294967, 4294968, 5294967, 2147483647}

InitTime ==
    /\ ts \in {Some([build |-> b, secs |-> s, micros |-> u, out |-> None]) :
                  b \in Builds, s \in TimeSeconds, u \in TimeMicros}
    /\ IdxIdle
    /\ ParIdle
    /\ AppIdle
    /\ LoopIdle

Timestamp ==
    /\ ts # None
    /\ Unwrap(ts).out = None
    /\ ts' = Some([Unwrap(ts) EXCEPT !.out =
                      Some(timestamp_built(Unwrap(ts).build, Unwrap(ts).secs,
                                           Unwrap(ts).micros))])
    /\ UNCHANGED <<idxVars, parVars, appVars, loopVars>>

NextTime == Timestamp

SpecTime == InitTime /\ [][NextTime]_vars

\* the instants the pair (secs, micros) may stand for: seconds plus
\* microseconds/1e6 with the whole seconds carried, the same with the
\* fraction kept above one second where the nanoseconds fit, or the epoch
InstantsOf(secs, micros) ==
    {<<0, 0>>,
     <<secs + micros \div 1000000, (micros % 1000000) * 1000>>}
      \cup (IF micros < 2000000 THEN {<<secs, micros * 1000>>} ELSE {})

\* C23: for every pair (seconds, microseconds) of a storage header
\* DltStorageHeader::timestamp returns without failing, and its result is
\* the instant seconds + microseconds/1e6 after the epoch or the epoch
\* itself; the conversion to nanoseconds never overflows into a different
\* valid instant.
C23_TimestampTotal ==
    (ts # None /\ Unwrap(ts).out # None) =>
        LET t == Unwrap(ts)
            r == Unwrap(t.out) IN
        /\ r.kind = "Ok"
        /\ r.v \in InstantsOf(t.secs, t.micros)

----------------------------------------------------------------------------
(* SpecLoop: the event loop.  EventHandler::new spawns the polling thread, *)
(* which sends key, resize and tick events into an unbounded channel and   *)
(* leaves its loop only when it reads Ctrl+C; run_app receives one event   *)
(* per iteration and leaves its loop once should_exit is set; returning    *)
(* from run_app drops the EventHandler, whose Drop joins the thread before *)
(* the sender and receiver fields are dropped.  The EventHandler keeps a   *)
(* sender of its own, so the channel never disconnects while run_app       *)
(* receives, and the receiver outlives the thread, so a send never fails.  *)

\* keys the user presses besides Ctrl+C: q, j, /, Enter, Esc
LoopKeys == {Key(Char(113)), Key(Char(106)), Key(Char(47)),
             Key(<<"Enter">>), Key(<<"Esc">>)}

InitLoop ==
    /\ app = App_new
    /\ crashed = FALSE
    /\ last_op = None
    /\ chan = <<>>
    /\ ev_pc = "poll"
    /\ main_pc = "recv"
    /\ IdxIdle
    /\ ParIdle
    /\ TimeIdle

\* characters waiting in the channel that a command input would take
TypedInChan ==
    Cardinality({k \in 1..Len(chan) :
                    chan[k][1] = "Key" /\ chan[k][2].code[1] = "Char"})

LoopRest == UNCHANGED <<idxVars, parVars, timeVars>>

\* sender.send(ev).  Once run_app has returned nothing receives any more
\* and what is sent stays in the channel unread: the model keeps the
\* channel as run_app left it.
CanSend == main_pc = "recv" => Len(chan) < MaxChan
Send(ev) == chan' = IF main_pc = "recv" THEN Append(chan, ev) ELSE chan

\* the thread reads a key other than Ctrl+C and sends it
EvKey ==
    /\ ev_pc = "poll"
    /\ CanSend
    /\ \E key \in LoopKeys :
          /\ (key.code[1] = "Char" /\ app.input_mode # "Normal") =>
                 Len(app.command_input) + TypedInChan < MaxInput
          /\ Send(<<"Key", key>>)
    /\ ev_pc' = "tick"
    /\ UNCHANGED <<main_pc, appVars>> /\ LoopRest

\* the thread reads a resize and sends it
EvResize ==
    /\ ev_pc = "poll"
    /\ CanSend
    /\ Send(<<"Resize">>)
    /\ ev_pc' = "tick"
    /\ UNCHANGED <<main_pc, appVars>> /\ LoopRest

\* the poll times out, or the event read is neither a key nor a resize
EvIdle ==
    /\ ev_pc = "poll"
    /\ ev_pc' = "tick"
    /\ UNCHANGED <<chan, main_pc, appVars>> /\ LoopRest

\* the thread reads Ctrl+C: `break`, nothing is sent, the thread ends and
\* its clone of the sender is dropped
EvCtrlC ==
    /\ ev_pc = "poll"
    /\ ev_pc' = "exited"
    /\ UNCHANGED <<chan, main_pc, appVars>> /\ LoopRest

\* the tick rate has elapsed: the thread sends a tick and loops
EvTick ==
    /\ ev_pc = "tick"
    /\ CanSend
    /\ Send(<<"Tick">>)
    /\ ev_pc' = "poll"
    /\ UNCHANGED <<main_pc, appVars>> /\ LoopRest

\* the tick rate has not elapsed: the thread loops
EvNoTick ==
    /\ ev_pc = "tick"
    /\ ev_pc' = "poll"
    /\ UNCHANGED <<chan, main_pc, appVars>> /\ LoopRest

\* one iteration of the loop of run_app: draw, receive (blocking while the
\* channel is empty), handle the event, test should_exit
MainRecv ==
    /\ main_pc = "recv"
    /\ chan # <<>>
    /\ \E a \in {handle_event(app, Head(chan))} :
          /\ app' = a
          /\ main_pc' = IF a.should_exit THEN "join" ELSE "recv"
    /\ chan' = Tail(chan)
    /\ last_op' = Some([op |-> "event", ev |-> Head(chan)])
    /\ UNCHANGED <<ev_pc, crashed>> /\ LoopRest

\* run_app has returned and the EventHandler is dropped: handler.join()
\* returns once the thread has ended; main then restores the terminal
MainJoin ==
    /\ main_pc = "join"
    /\ ev_pc = "exited"
    /\ main_pc' = "done"
    /\ UNCHANGED <<chan, ev_pc, appVars>> /\ LoopRest

NextLoop ==
    \/ EvKey
    \/ EvResize
    \/ EvIdle
    \/ EvCtrlC
    \/ EvTick
    \/ EvNoTick
    \/ MainRecv
    \/ MainJoin

SpecLoop == InitLoop /\ [][NextLoop]_vars

\* Both threads are scheduled: the main thread receives when an event
\* waits and returns from join when the thread has ended, and the polling
\* thread keeps going round its loop; when a key is pressed is up to the
\* user.
SpecLoopLive ==
    /\ SpecLoop
    /\ WF_vars(MainRecv)
    /\ WF_vars(MainJoin)
    /\ WF_vars(EvIdle \/ EvTick \/ EvNoTick)

\* C24: pressing q in normal input mode sets should_exit, the main loop
\* ends after handling that event, and the program eventually terminates:
\* dropping the EventHandler, which joins the polling thread, does not
\* block forever.
C24_QuitTerminates ==
    /\ [][(/\ main_pc = "recv"
           /\ app.input_mode = "Normal"
           /\ last_op' = Some([op |-> "event",
                               ev |-> <<"Key", Key(Char(113))>>]))
          => app'.should_exit /\ main_pc' = "join"]_vars
    /\ (app.should_exit ~> main_pc = "done")

\* C25: after the event thread has read a Ctrl+C key event the main loop
\* eventually observes an exit request and run_app returns, rather than
\* blocking forever on the event channel.
C25_CtrlCTerminates ==
    (ev_pc = "exited") ~> (main_pc \in {"join", "done"})

----------------------------------------------------------------------------
(* Termination of build_index                                              *)

\* the loop of build_index keeps running until it is left
SpecIndexLive ==
    /\ SpecIndex
    /\ WF_vars(ScanBreak \/ ScanSkip \/ ScanRecordAdvance \/ ScanAdvance)

\* the length field at the scan position is non-zero and the record fits
LengthUsable ==
    /\ IsMagic(mmap, pos)
    /\ pos + 20 <= Len(mmap)
    /\ U16LE(mmap, pos + 18) > 0
    /\ pos + U16LE(mmap, pos + 18) <= Len(mmap)

\* C26: build_index terminates on every input: each iteration that stays in
\* the loop advances the scan position by at least one byte, by the length
\* field only when it is non-zero and fits in the remaining bytes and
\* otherwise by exactly one, so a record whose length field is 0 or corrupt
\* cannot cause an endless loop.
C26_BuildIndexTerminates ==
    /\ [][(pc = "scan" /\ pc' = "scan") =>
             /\ pos' >= pos + 1
             /\ pos' = IF LengthUsable THEN pos + U16LE(mmap, pos + 18)
                       ELSE pos + 1
             /\ pos' <= Len(mmap)]_vars
    /\ <>(pc = "done")

\* the scan has finished on a file with an indexed record whose length
\* field is 0 and one whose length field exceeds the rest of the file
C26_Witness ==
    /\ pc = "done"
    /\ \E k \in 1..Len(index) :
          index[k] + 20 <= Len(mmap) /\ U16LE(mmap, index[k] + 18) = 0
    /\ \E k \in 1..Len(index) :
          /\ index[k] + 20 <= Len(mmap)
          /\ index[k] + U16LE(mmap, index[k] + 18) > Len(mmap)

----------------------------------------------------------------------------
(* Messages that fail to parse during a filter or a search (SpecPar)       *)

\* the job accepts the message
JobMatches(job, msg) ==
    IF job.kind = "filter" THEN FilterCriteria_matches(job.criteria, msg)
    ELSE SearchEngine_matches(job.engine, msg)

\* C27: a message that fails to parse never aborts a filter or a search
\* over a file: FilterEngine::apply (for any criteria, including criteria
\* with no constraint) and SearchEngine::search complete, the position of an
\* unparseable message is absent from the returned list and every parseable
\* matching position is present.
C27_UnparseableSkipped ==
    par_pc = "done" =>
        /\ Unwrap(par_out).kind = "Ok"
        /\ \A i \in 0..(message_count(par_file) - 1) :
              LET r == get_message(par_file, i)
                  listed == \E k \in 1..Len(Unwrap(par_out).v) :
                                Unwrap(par_out).v[k] = i
              IN  /\ r.kind # "Ok" => ~listed
                  /\ (r.kind = "Ok" /\ JobMatches(par_job, r.msg)) => listed

----------------------------------------------------------------------------
(* The filter result of the session (Spec)                                 *)

\* C28: in every reachable session state with at least one open file
\* filtered_messages is the result of applying the session's criteria to
\* the current file, files[current_file_idx]; with no open file it is
\* empty; the criteria of the filter engine are the session's criteria.
C28_FilterResultCurrent ==
    /\ IF app.files = <<>> THEN app.filtered_messages = <<>>
       ELSE /\ app.current_file_idx < Len(app.files)
            /\ app.filtered_messages
                   = FilterEngine_apply(
                         app.filter, Mapped(app.files[app.current_file_idx + 1])).v
    /\ app.filter_engine = Some([criteria |-> app.filter])

\* the session has moved back to the second of two files under a text
\* filter that keeps some of its messages and drops others
C28_Witness ==
    /\ last_op = Some([op |-> "prev_file", ok |-> TRUE])
    /\ Len(app.files) = 2
    /\ app.current_file_idx = 1
    /\ IsSome(app.filter.text_pattern)
    /\ app.filtered_messages # <<>>
    /\ Len(app.filtered_messages) < message_count(current_file(app))
    /\ app.files[1] # app.files[2]

----------------------------------------------------------------------------
(* Successive filter requests (Spec)                                       *)

\* this step handles a filter request: a text filter that compiles, given
\* directly or typed into the command input, a switch between several
\* files, or the load of the first file
FilterRequested ==
    \/ last_op' = Some([op |-> "apply_text_filter", ok |-> TRUE])
    \/ /\ last_op' \in {Some([op |-> "next_file", ok |-> TRUE]),
                         Some([op |-> "prev_file", ok |-> TRUE])}
       /\ Len(app.files) > 1
    \/ /\ last_op' = Some([op |-> "load_file", ok |-> TRUE])
       /\ app.files = <<>>
    \/ /\ last_op' = Some([op |-> "handle_filter_input", ok |-> TRUE])
       /\ app'.filter # app.filter                \* Enter on a new pattern

\* what a request for the criteria and current file of session a yields
\* once every position has been evaluated
RequestResult(a) ==
    IF a.files = <<>> THEN <<>> ELSE
    LET file == current_file(a)
        n == message_count(file) IN
    IF is_empty(a.filter) THEN [k \in 1..n |-> k - 1]
    ELSE SortedBelow({i \in 0..(n - 1) :
                         /\ messages(file)[i + 1].kind = "Ok"
                         /\ FilterCriteria_matches(
                                a.filter, messages(file)[i + 1].msg)}, n)

\* C29: across any sequence of filter requests (apply_text_filter, file
\* switches, first load) the installed filtered_messages is the result of
\* the most recent request: a request installs, before it returns, the
\* complete result for the criteria and file it leaves current, and no
\* other step installs anything.
C29_LatestRequestWins ==
    [][IF FilterRequested
       THEN app'.filtered_messages = RequestResult(app')
       ELSE app'.filtered_messages = app.filtered_messages]_vars

\* a text filter was requested after a switch to the second of two
\* different files, whose result differs from the one installed before
C29_Witness ==
    /\ last_op = Some([op |-> "apply_text_filter", ok |-> TRUE])
    /\ Len(app.files) = 2
    /\ app.files[1] # app.files[2]
    /\ app.current_file_idx = 1
    /\ app.filtered_messages # <<>>
    /\ Len(app.filtered_messages) < message_count(current_file(app))

----------------------------------------------------------------------------
(* Failure of load_file (Spec)                                             *)

\* every indexed message of every file the session holds parses
HeldFilesParse ==
    \A k \in 1..Len(app.files) :
        \A i \in 1..message_count(Mapped(app.files[k])) :
            messages(Mapped(app.files[k]))[i].kind = "Ok"

\* C30: load_file is atomic with respect to failure: when opening the file
\* or building its secondary index fails, including when an indexed message
\* fails to parse, load_file returns the error and the session (files,
\* indices, current file, filter result, selection, search state) is
\* unchanged; |files| = |indices| in every reachable state and every
\* indexed message of every file held by the session parses.
C30_LoadFileAtomic ==
    /\ [][last_op' = Some([op |-> "load_file", ok |-> FALSE])
             => app' = app /\ ~crashed']_vars
    /\ [](Len(app.files) = Len(app.indices))
    /\ []HeldFilesParse

====
